---- MODULE Spec2Model ----
(***************************************************************************)
(* A model of the SimZ discrete-event simulation kernel: the workflow      *)
(* graph (graph.py), the component runtime with its Generator and Resource *)
(* kinds (comp.py) and the start-up of a run (build.py), driven by the     *)
(* event queue of the simpy environment the components are written         *)
(* against.                                                                *)
(*                                                                         *)
(* Strings that the code takes apart or puts together (handle ids) are     *)
(* sequences of one-character strings, so that f"{T}-out" and              *)
(* rsplit("-", 1) are computed and not assumed.  Python's None is the      *)
(* empty sequence <<>> for optional integers, the one-element sequence     *)
(* NoneStr for an optional handle id, the string "None" for an optional    *)
(* component id and the container id 0 for an absent container.            *)
(***************************************************************************)
EXTENDS Integers, Sequences, FiniteSets, TLC

(***************************************************************************)
(* Bounds of the model.                                                    *)
(***************************************************************************)
MaxGenCount == 5
MaxCap == 2
MaxRunTime == 7
MaxClock == 8

(***************************************************************************)
(* Strings.                                                                *)
(***************************************************************************)
NoneStr == <<"None">>

Dash == "-"

OutSuffix == <<"-", "o", "u", "t">>

InSuffix == <<"-", "i", "n">>

\* str.rfind: the last index of character c in s, 0 when c does not occur
RECURSIVE RFind(_, _, _)
RFind(s, c, i) ==
    IF i = 0 THEN 0
    ELSE IF s[i] = c THEN i
    ELSE RFind(s, c, i - 1)

\* len(s.rsplit("-", 1)): 2 when s holds a dash, 1 otherwise
RSplitLen(s) == IF RFind(s, Dash, Len(s)) = 0 THEN 1 ELSE 2

\* s.rsplit("-", 1)[0]: what precedes the last dash
RSplitHead(s) ==
    LET i == RFind(s, Dash, Len(s))
    IN  IF i = 0 THEN s ELSE SubSeq(s, 1, i - 1)

\* Index of the first TRUE of a sequence of tests, 0 when there is none
FirstIndex(tests) ==
    IF \E i \in 1..Len(tests) : tests[i]
    THEN CHOOSE i \in 1..Len(tests) : tests[i] /\ \A j \in 1..(i - 1) : ~tests[j]
    ELSE 0

SeqContains(seq, x) == \E i \in 1..Len(seq) : seq[i] = x

(***************************************************************************)
(* The workflow graph: a networkx DiGraph.  nodes is the node dictionary   *)
(* in insertion order; edges holds one record per ordered pair of nodes,   *)
(* in the order the pair was first added (the adjacency dictionaries keep  *)
(* the position of a key whose value is updated).                          *)
(***************************************************************************)
EmptyGraph == [nodes |-> <<>>, edges |-> <<>>]

AddNode(nodes, n) == IF SeqContains(nodes, n) THEN nodes ELSE Append(nodes, n)

add_edge(g, e) ==
    LET SamePair(x) == x.source = e.source /\ x.target = e.target
        i == FirstIndex([k \in 1..Len(g.edges) |-> SamePair(g.edges[k])])
    IN  [nodes |-> AddNode(AddNode(g.nodes, e.source), e.target),
         edges |-> IF i = 0 THEN Append(g.edges, e)
                   ELSE [g.edges EXCEPT ![i] = e]]

RECURSIVE LoadFrom(_, _, _)
LoadFrom(g, edges_data, i) ==
    IF i > Len(edges_data) THEN g
    ELSE LoadFrom(add_edge(g, edges_data[i]), edges_data, i + 1)

load_edges(edges_data) == LoadFrom(EmptyGraph, edges_data, 1)

out_edges(g, n) == SelectSeq(g.edges, LAMBDA x : x.source = n)

in_degree(g, n) == Cardinality({i \in 1..Len(g.edges) : g.edges[i].target = n})

\* The first match of the handle among the outgoing edges: <<>> is None
FirstMatch(outs, source_handle_id) ==
    LET Uses(x) == x.sourceHandle = source_handle_id
        i == FirstIndex([k \in 1..Len(outs) |-> Uses(outs[k])])
    IN  IF i = 0 THEN <<>>
        ELSE <<[comp |-> outs[i].target, handler |-> outs[i].targetHandle]>>

find_connection_target(g, source_component_id, source_handle_id) ==
    IF ~SeqContains(g.nodes, source_component_id) THEN <<>>
    ELSE FirstMatch(out_edges(g, source_component_id), source_handle_id)

get_roots(g) == SelectSeq(g.nodes, LAMBDA n : in_degree(g, n) = 0)

(***************************************************************************)
(* The components dataState.json defines, as build() constructs them: two  *)
(* generators and two resources.  "X" is an id that edges may name but     *)
(* that no component has.                                                  *)
(***************************************************************************)
Gens == {"G1", "G2"}

Ress == {"R1", "R2"}

Comps == Gens \cup Ress

category(c) == IF c \in Gens THEN "generator" ELSE "resource"

TypeT == <<"T">>

TypeU == <<"U">>

Edge(s, sh, t, th, id) ==
    [source |-> s, sourceHandle |-> sh, target |-> t, targetHandle |-> th, id |-> id]

VARIABLES
    gen_count,        \* Generator.gen_count: <<>> (None) or <<n>>
    capacity,         \* Resource.capacity
    service,          \* Resource.test_func: the ticks its timeout takes
    GenList,          \* Generator.GenList: the payload type names, in order
    workflow,         \* Component.workflow: the loaded graph
    run_time,         \* SimulationBuilder.run_time: <<>> (None) or <<T>>
    registry,         \* Component.registry: the ids it holds
    now,              \* env.now
    eid,              \* the environment's event counter
    queue,            \* the environment's heap of scheduled events
    procs,            \* the simpy processes, by process id
    users,            \* simpy Resource.users of each Resource
    put_queue,        \* simpy Resource.put_queue of each Resource
    run_call_count,   \* Component.run_call_count
    input_count,      \* Component.input_count
    generated_count,  \* Generator.generated_count
    containers,       \* the GenContainer objects, by container id
    log,              \* the rows handed to the logger, in order
    status,           \* where start() is: built, running, drained, stopped, crashed, failed
    nextCalls,        \* history: what each _next call did
    requested,        \* history: the order in which processes asked for each server
    dispatched,       \* history: the events processed, in order
    wg,               \* a WorkflowGraph loaded, serialised and loaded again
    kv,               \* a KVStorage and the outcome of the last call on it
    gt,               \* a GenTypes and the outcome of the last call on it
    csv,              \* a CsvLogger: its file, its buffer, its handle
    ce,               \* a CodeExec: its fragments, its namespaces, the last call
    sb,               \* a SimulationBuilder: its configuration and what build() did
    runs              \* the runs of one configuration: which run this is, and the
                      \* CSV rows of the run before it

simVars == <<gen_count, capacity, service, GenList, workflow, run_time, registry, now, eid,
             queue, procs, users, put_queue, run_call_count, input_count,
             generated_count, containers, log, status, nextCalls, requested,
             dispatched>>

\* The objects the simulation run does not touch
objVars == <<wg, kv, gt, csv, ce, sb, runs>>

vars == <<simVars, objVars>>

\* An object that is not part of the specification at hand
Unused == "unused"

confVars == <<gen_count, capacity, service, GenList, workflow, run_time, registry>>

(***************************************************************************)
(* The mutable state of a run as one record, so that the code's            *)
(* procedures are operators from state to state.                           *)
(***************************************************************************)
Cur ==
    [now |-> now, eid |-> eid, queue |-> queue, procs |-> procs, users |-> users,
     put_queue |-> put_queue, run_call_count |-> run_call_count,
     input_count |-> input_count, generated_count |-> generated_count,
     containers |-> containers, log |-> log, status |-> status,
     nextCalls |-> nextCalls, requested |-> requested, dispatched |-> dispatched]

\* The state s becomes the state of the run
Assign(s) ==
    /\ now' = s.now
    /\ eid' = s.eid
    /\ queue' = s.queue
    /\ procs' = s.procs
    /\ users' = s.users
    /\ put_queue' = s.put_queue
    /\ run_call_count' = s.run_call_count
    /\ input_count' = s.input_count
    /\ generated_count' = s.generated_count
    /\ containers' = s.containers
    /\ log' = s.log
    /\ status' = s.status
    /\ nextCalls' = s.nextCalls
    /\ requested' = s.requested
    /\ dispatched' = s.dispatched
    /\ UNCHANGED confVars

Commit(s) ==
    /\ Assign(s)
    /\ UNCHANGED objVars

\* The first run of a configuration: no CSV rows of a run before it
FirstRun == [run |-> 1, csv |-> <<>>]

(***************************************************************************)
(* The simpy environment.  An event is scheduled with a priority (process  *)
(* starts and the until event are urgent, everything else is normal) and   *)
(* the next event id; the heap yields the least (time, priority, id).      *)
(***************************************************************************)
\* The heap order with the newest event first among equals
Before_NewestFirst(e, f) ==
    \/ e.time < f.time
    \/ e.time = f.time /\ e.prio = "URGENT" /\ f.prio # "URGENT"
    \/ e.time = f.time /\ e.prio = f.prio /\ e.eid > f.eid

Rank(prio) == IF prio = "URGENT" THEN 0 ELSE 1

Before(e, f) ==
    \/ e.time < f.time
    \/ e.time = f.time /\ Rank(e.prio) < Rank(f.prio)
    \/ e.time = f.time /\ Rank(e.prio) = Rank(f.prio) /\ e.eid < f.eid

\* heappop: the event env.step() takes
NextEvent(q) == CHOOSE e \in q : \A f \in q \ {e} : Before(e, f)

\* env.schedule(event, priority, delay)
schedule(s, prio, delay, kind, pid, res, ok) ==
    [s EXCEPT !.queue = @ \cup {[time |-> s.now + delay, prio |-> prio, eid |-> s.eid,
                                 kind |-> kind, pid |-> pid, res |-> res, ok |-> ok]},
              !.eid = @ + 1]

\* env.process(generator): a new process whose Initialize event is urgent
process(s, comp, input) ==
    LET pid == Len(s.procs) + 1
        p == [comp |-> comp, pc |-> "created", input |-> input, loop |-> <<>>,
              output |-> 0, seenComp |-> "None", seenHandler |-> NoneStr, ahead |-> 0]
    IN  schedule([s EXCEPT !.procs = Append(@, p)], "URGENT", 0, "Initialize", pid, "None", TRUE)

\* env.timeout(delay), yielded by process pid
timeout(s, pid, delay) == schedule(s, "NORMAL", delay, "Timeout", pid, "None", TRUE)

\* The generator of process pid returned or raised: the process event is
\* scheduled, failed (ok = FALSE) when it raised
Terminate(s, pid, ok) ==
    schedule([s EXCEPT !.procs[pid].pc = IF ok THEN "done" ELSE "failed"],
             "NORMAL", 0, "Process", pid, "None", ok)

(***************************************************************************)
(* Component: logging and the hand-over of a container.                    *)
(***************************************************************************)
\* log_event stamping the row with the time of the next tick
log_event_NextTick(s, comp, action, PDV) ==
    [s EXCEPT !.log = Append(@, [time |-> s.now + 1, component_id |-> comp,
                                 component_type |-> category(comp), action |-> action,
                                 input_count |-> s.input_count[comp],
                                 run_count |-> s.run_call_count[comp],
                                 PDV |-> PDV])]

\* Component.log_event: the row with "time": self.env.now
log_event(s, comp, action, PDV) ==
    [s EXCEPT !.log = Append(@, [time |-> s.now, component_id |-> comp,
                                 component_type |-> category(comp), action |-> action,
                                 input_count |-> s.input_count[comp],
                                 run_count |-> s.run_call_count[comp],
                                 PDV |-> PDV])]

\* targetHandlerFind taking the first type of a container that holds several
targetHandlerFind_FirstType(output) ==
    IF Len(output.Data) >= 1 THEN output.Data[1] \o OutSuffix ELSE NoneStr

\* f"{types_gen[0]}-out" when the container holds one type, NoneStr otherwise
targetHandlerFind(output) ==
    IF Len(output.Data) = 1 THEN output.Data[1] \o OutSuffix ELSE NoneStr

\* set_next_target leaving the handler as it was
set_next_target_KeepHandler(c, comp, handler) == [c EXCEPT !.targetComp = comp]

\* GenContainer.set_next_target
set_next_target(c, comp, handler) ==
    [c EXCEPT !.targetComp = comp, !.targetHandler = handler]

\* The record kept of a _next call: who called, with which container, the
\* handler the container had on receipt, the pair routed from, the
\* outcome, and the destination and process if any
NextCall(by, tok, given, srcComp, srcHandler, outcome, dst, pid) ==
    [by |-> by, tok |-> tok, given |-> given, srcComp |-> srcComp,
     srcHandler |-> srcHandler, outcome |-> outcome, dst |-> dst, pid |-> pid]

Note(s, call) == [s EXCEPT !.nextCalls = Append(@, call)]

NoDst == [comp |-> "None", handler |-> NoneStr]

\* _next raising, instead of returning, when the lookup finds no edge
Route_RaiseOnMiss(s, self, tok, given) ==
    LET c == s.containers[tok]
        output_list == find_connection_target(workflow, c.targetComp, c.targetHandler)
    IN  IF output_list = <<>>
        THEN [Note(s, NextCall(self, tok, given, c.targetComp, c.targetHandler,
                               "no_route", NoDst, 0)) EXCEPT !.status = "crashed"]
        ELSE LET dst == output_list[1]
                 s1 == [s EXCEPT !.containers[tok] =
                                     set_next_target(@, dst.comp, dst.handler)]
             IN  IF dst.comp \notin registry
                 THEN Note(s1, NextCall(self, tok, given, c.targetComp, c.targetHandler,
                                        "no_component", dst, 0))
                 ELSE Note(process(s1, dst.comp, tok),
                           NextCall(self, tok, given, c.targetComp, c.targetHandler,
                                    "spawned", dst, Len(s.procs) + 1))

\* Component._next, from the routing lookup on: the container carries the
\* pair to route from
Route(s, self, tok, given) ==
    LET c == s.containers[tok]
        output_list == find_connection_target(workflow, c.targetComp, c.targetHandler)
    IN  IF output_list = <<>>
        THEN Note(s, NextCall(self, tok, given, c.targetComp, c.targetHandler,
                              "no_route", NoDst, 0))
        ELSE LET dst == output_list[1]
                 s1 == [s EXCEPT !.containers[tok] =
                                     set_next_target(@, dst.comp, dst.handler)]
             IN  IF dst.comp \notin registry
                 THEN Note(s1, NextCall(self, tok, given, c.targetComp, c.targetHandler,
                                        "no_component", dst, 0))
                 ELSE Note(process(s1, dst.comp, tok),
                           NextCall(self, tok, given, c.targetComp, c.targetHandler,
                                    "spawned", dst, Len(s.procs) + 1))

\* _next handing the container to the destination twice
SpawnedAgain(s) ==
    LET call == s.nextCalls[Len(s.nextCalls)]
    IN  IF call.outcome = "spawned" THEN process(s, call.dst.comp, call.tok) ELSE s

_next_SpawnsTwice(s, self, tok) ==
    IF tok = 0
    THEN Note(s, NextCall(self, 0, NoneStr, "None", NoneStr, "no_output", NoDst, 0))
    ELSE LET c0 == s.containers[tok]
             c1 == IF c0.targetComp = "None" THEN [c0 EXCEPT !.targetComp = self] ELSE c0
             str_hand == targetHandlerFind(c1)
             s1 == [s EXCEPT !.containers[tok] = c1]
         IN  IF c1.targetHandler = NoneStr /\ str_hand = NoneStr
             THEN Note(s1, NextCall(self, tok, c0.targetHandler, c1.targetComp, NoneStr,
                                    "no_handler", NoDst, 0))
             ELSE IF c1.targetHandler = NoneStr
             THEN SpawnedAgain(Route([s1 EXCEPT !.containers[tok].targetHandler = str_hand],
                                     self, tok, c0.targetHandler))
             ELSE SpawnedAgain(Route(s1, self, tok, c0.targetHandler))

\* Component._next(output); tok = 0 is output None
_next(s, self, tok) ==
    IF tok = 0
    THEN Note(s, NextCall(self, 0, NoneStr, "None", NoneStr, "no_output", NoDst, 0))
    ELSE LET c0 == s.containers[tok]
             c1 == IF c0.targetComp = "None" THEN [c0 EXCEPT !.targetComp = self] ELSE c0
             str_hand == targetHandlerFind(c1)
             s1 == [s EXCEPT !.containers[tok] = c1]
         IN  IF c1.targetHandler = NoneStr /\ str_hand = NoneStr
             THEN Note(s1, NextCall(self, tok, c0.targetHandler, c1.targetComp, NoneStr,
                                    "no_handler", NoDst, 0))
             ELSE IF c1.targetHandler = NoneStr
             THEN Route([s1 EXCEPT !.containers[tok].targetHandler = str_hand],
                        self, tok, c0.targetHandler)
             ELSE Route(s1, self, tok, c0.targetHandler)

(***************************************************************************)
(* simpy.Resource: request, grant and release of a capacity unit.  A       *)
(* request is known by the id of the process that made it.                 *)
(***************************************************************************)
\* A server built with one unit more than the configured capacity
ServerCapacity_OneMore(r) == capacity[r] + 1

\* The capacity of the server a Resource builds: simpy.Resource(env, capacity)
ServerCapacity(r) == capacity[r]

\* Resource._do_put: grant the request when a unit is free
_do_put(s, r, req) ==
    IF Len(s.users[r]) < ServerCapacity(r)
    THEN schedule([s EXCEPT !.users[r] = Append(@, req)], "NORMAL", 0, "Request", req, r, TRUE)
    ELSE s

\* _trigger_put trying the newest request instead of the oldest
PutCandidate_Newest(q) == Len(q)

\* The request _trigger_put tries: the head of the queue
PutCandidate(q) == 1

\* BaseResource._trigger_put: _do_put returns nothing, so the loop ends after
\* the first request tried, which leaves the queue when it was granted
_trigger_put(s, r) ==
    IF s.put_queue[r] = <<>> THEN s
    ELSE LET idx == PutCandidate(s.put_queue[r])
             put_event == s.put_queue[r][idx]
             s1 == _do_put(s, r, put_event)
             triggered == SeqContains(s1.users[r], put_event)
         IN  IF triggered
             THEN [s1 EXCEPT !.put_queue[r] =
                       SubSeq(@, 1, idx - 1) \o SubSeq(@, idx + 1, Len(@))]
             ELSE s1

\* resource.request(): the Put event joins the queue and the queue is tried
request(s, r, pid) ==
    _trigger_put([s EXCEPT !.put_queue[r] = Append(@, pid),
                           !.requested[r] = Append(@, pid),
                           !.procs[pid].ahead = Len(s.put_queue[r])], r)

\* A release that leaves the request among the users
release_KeepUser(s, r, req) == schedule(s, "NORMAL", 0, "Release", req, r, TRUE)

\* resource.release(request) at the exit of the with block: the request
\* leaves users at once, and the Release event is scheduled; waiters are
\* tried when that event is processed
release(s, r, req) ==
    schedule([s EXCEPT !.users[r] = SelectSeq(@, LAMBDA u : u # req)],
             "NORMAL", 0, "Release", req, r, TRUE)

(***************************************************************************)
(* Generator.run                                                           *)
(***************************************************************************)
\* dict keys of the container built from GenList: each id once, in order
RECURSIVE DictKeys(_, _, _)
DictKeys(ids, i, acc) ==
    IF i > Len(ids) THEN acc
    ELSE DictKeys(ids, i + 1, IF SeqContains(acc, ids[i]) THEN acc ELSE Append(acc, ids[i]))

\* genUUIDHEX: uuid4().hex, an id no other container has, in this run or in
\* another
genUUIDHEX(s) == <<runs.run, Len(s.containers) + 1>>

\* A test_func that hands its container on before its timeout, one tick
\* ahead of the GENERATE row
GenTestFunc_ForwardsEarly(s, pid) ==
    LET g == s.procs[pid].comp
        container == [containerId |-> genUUIDHEX(s),
                      Data |-> DictKeys(GenList[g], 1, <<>>),
                      targetComp |-> "None", targetHandler |-> NoneStr]
        tok == Len(s.containers) + 1
    IN  timeout(_next([s EXCEPT !.containers = Append(@, container),
                                !.procs[pid].output = tok,
                                !.procs[pid].pc = "gen_timeout"], g, tok), pid, 1)

\* Generator.test_func up to its yield: a new container, then timeout(1)
GenTestFunc(s, pid) ==
    LET g == s.procs[pid].comp
        container == [containerId |-> genUUIDHEX(s),
                      Data |-> DictKeys(GenList[g], 1, <<>>),
                      targetComp |-> "None", targetHandler |-> NoneStr]
        tok == Len(s.containers) + 1
    IN  timeout([s EXCEPT !.containers = Append(@, container),
                          !.procs[pid].output = tok,
                          !.procs[pid].pc = "gen_timeout"], pid, 1)

\* The loop test with >= for >: one round too many
LoopOpen_Inclusive(loop) == loop = <<>> \/ loop[1] >= 0

\* while loop is None or loop > 0
LoopOpen(loop) == loop = <<>> \/ loop[1] > 0

\* The head of the loop of Generator.run: the test, the two counters, and
\* test_func up to its timeout; past the loop the generator returns
GenLoop(s, pid) ==
    LET g == s.procs[pid].comp
    IN  IF LoopOpen(s.procs[pid].loop)
        THEN GenTestFunc([s EXCEPT !.run_call_count[g] = @ + 1,
                                   !.input_count[g] = @ + 1], pid)
        ELSE Terminate(s, pid, TRUE)

\* Generator.run from its start: loop = self.gen_count
GenStart(s, pid) ==
    GenLoop([s EXCEPT !.procs[pid].loop = gen_count[s.procs[pid].comp]], pid)

\* A generator that holds its next round back while a token waits for a
\* server
GenResume_WaitsForServer(s, pid) ==
    LET g == s.procs[pid].comp
        output == s.procs[pid].output
        s1 == log_event(s, g, "GENERATE", output)
        s2 == _next(s1, g, output)
        s3 == [s2 EXCEPT !.generated_count[g] = @ + 1,
                         !.procs[pid].loop = IF @ = <<>> THEN @ ELSE <<@[1] - 1>>]
    IN  IF \E r \in Ress : s.put_queue[r] # <<>>
        THEN timeout(s, pid, 1)
        ELSE GenLoop(s3, pid)

\* Generator.run resumed by its timeout: the GENERATE row, _next, the
\* counters, and round the loop again
GenResume(s, pid) ==
    LET g == s.procs[pid].comp
        output == s.procs[pid].output
        s1 == log_event(s, g, "GENERATE", output)
        s2 == _next(s1, g, output)
        s3 == [s2 EXCEPT !.generated_count[g] = @ + 1,
                         !.procs[pid].loop = IF @ = <<>> THEN @ ELSE <<@[1] - 1>>]
    IN  GenLoop(s3, pid)

(***************************************************************************)
(* Resource.run                                                            *)
(***************************************************************************)
\* Resource.run from its start to yield req
ResStart(s, pid) ==
    LET r == s.procs[pid].comp
    IN  request([s EXCEPT !.run_call_count[r] = @ + 1,
                          !.input_count[r] = @ + 1,
                          !.procs[pid].pc = "res_request"], r, pid)

\* test_func with a service of two ticks
SlowService == 1 + 1

\* test_func with a service that takes no time
NoService == 1 - 1

\* Resource.test_func: the service time, yield self.env.timeout(1)
ServiceTime == 1

\* A test_func that raises: env.timeout of a negative delay is a ValueError
FailingService == 0 - 1

\* Resource.run resumed by its granted request: the ENTER row, then
\* test_func up to its timeout; when test_func raises, the with block is
\* left by the exception, which releases the request, and the process fails
ResEnter(s, pid) ==
    LET r == s.procs[pid].comp
        s1 == log_event(s, r, "ENTER", s.procs[pid].input)
    IN  IF service[r] < 0
        THEN Terminate(release(s1, r, pid), pid, FALSE)
        ELSE timeout([s1 EXCEPT !.procs[pid].pc = "res_service"], pid, service[r])

\* The action name of the row written after the with block
ExitAction == "Exit"

\* Whether b, _ = handler.rsplit("-", 1) unpacks
Unpacks(handler) == RSplitLen(handler) = 2

\* Resource.run resumed by the service timeout: the with block exits and
\* releases, the exit row is written, the handle is turned to its -out
\* side, and the container is handed to _next
ResLeave(s, pid) ==
    LET r == s.procs[pid].comp
        output == s.procs[pid].input
        s1 == release(s, r, pid)
        s2 == log_event(s1, r, ExitAction, output)
    IN  IF output # 0 /\ s2.containers[output].targetHandler # NoneStr
        THEN IF Unpacks(s2.containers[output].targetHandler)
             THEN Terminate(_next([s2 EXCEPT !.containers[output].targetHandler =
                                         RSplitHead(@) \o OutSuffix], r, output), pid, TRUE)
             ELSE Terminate(s2, pid, FALSE)
        ELSE Terminate(_next(s2, r, output), pid, TRUE)

(***************************************************************************)
(* The configurations: the edge lists of edge.json, the parameters of      *)
(* dataState.json and the run time.                                        *)
(***************************************************************************)
TOut == TypeT \o OutSuffix

TIn == TypeT \o InSuffix

UOut == TypeU \o OutSuffix

UIn == TypeU \o InSuffix

EdgeG1R1 == Edge("G1", TOut, "R1", TIn, "e1")

EdgeR1R2 == Edge("R1", TOut, "R2", TIn, "e2")

EdgeG2R1 == Edge("G2", UOut, "R1", UIn, "e3")

EdgeR2R1 == Edge("R2", TOut, "R1", TIn, "e4")

EdgeG1R1U == Edge("G1", UOut, "R1", UIn, "e5")

EdgeG1X == Edge("G1", TOut, "X", TIn, "e6")

EdgeG2R1T == Edge("G2", TOut, "R1", TIn, "e7")

EdgeLists ==
    { <<>>,
      <<EdgeG1R1>>,
      <<EdgeG1R1, EdgeR1R2>>,
      <<EdgeG1R1, EdgeG2R1>>,
      <<EdgeG1R1, EdgeR1R2, EdgeR2R1>>,
      <<EdgeG1R1U>>,
      <<EdgeG1X, EdgeG2R1T>> }

GenLists == { <<>>, <<TypeT>>, <<TypeU>>, <<TypeT, TypeU>> }

GenCounts == {<<>>} \cup {<<n>> : n \in 0..MaxGenCount}

RunTimes == {<<>>, <<10>>, <<100>>} \cup {<<t>> : t \in 1..MaxRunTime}

\* The environment and the components as their constructors leave them:
\* the clock at 0, nothing scheduled, no process, every counter at 0
Constructed ==
    /\ registry = Comps
    /\ now = 0
    /\ eid = 0
    /\ queue = {}
    /\ procs = <<>>
    /\ users = [r \in Ress |-> <<>>]
    /\ put_queue = [r \in Ress |-> <<>>]
    /\ run_call_count = [c \in Comps |-> 0]
    /\ input_count = [c \in Comps |-> 0]
    /\ generated_count = [g \in Gens |-> 0]
    /\ containers = <<>>
    /\ log = <<>>
    /\ status = "built"
    /\ nextCalls = <<>>
    /\ requested = [r \in Ress |-> <<>>]
    /\ dispatched = <<>>

\* No object beside the simulation is under study
NoObjects ==
    /\ wg = Unused
    /\ kv = Unused
    /\ gt = Unused
    /\ csv = Unused
    /\ ce = Unused
    /\ sb = Unused

\* The state build() leaves: every component constructed and registered,
\* the graph loaded, the clock at 0 and nothing scheduled.  Every Resource
\* has the test_func of the class.
Init ==
    /\ gen_count \in [Gens -> GenCounts]
    /\ gen_count["G2"] = <<2>>
    /\ capacity \in [Ress -> 1..MaxCap]
    /\ capacity["R2"] = 1
    /\ service = [r \in Ress |-> ServiceTime]
    /\ GenList \in [Gens -> GenLists]
    /\ GenList["G2"] = <<TypeU>>
    /\ \E edges_data \in EdgeLists : workflow = load_edges(edges_data)
    /\ run_time \in RunTimes
    /\ Constructed
    /\ NoObjects
    /\ runs = FirstRun

\* The service of a Resource whose test_func is overridden to hold the
\* server for three ticks
LongService == ServiceTime + 2

\* The chain Generator -> Resource, the Resource with the test_func of the
\* class, with the three-tick one or with one that raises, the Generator
\* with up to MaxGenCount tokens or with ten
InitChain ==
    /\ gen_count \in {[G1 |-> n, G2 |-> <<2>>] : n \in {<<k>> : k \in 0..MaxGenCount} \cup {<<10>>}}
    /\ capacity \in {[R1 |-> c, R2 |-> 1] : c \in 1..MaxCap}
    /\ service \in {[R1 |-> d, R2 |-> ServiceTime] :
                         d \in {ServiceTime, LongService, FailingService}}
    /\ GenList = [G1 |-> <<TypeT>>, G2 |-> <<TypeU>>]
    /\ workflow = load_edges(<<EdgeG1R1>>)
    /\ run_time \in RunTimes
    /\ Constructed
    /\ NoObjects
    /\ runs = FirstRun

(***************************************************************************)
(* SimulationBuilder.start                                                 *)
(***************************************************************************)
\* find_root_comps: every root of the graph must be a constructed component
RootsFound == \A i \in 1..Len(get_roots(workflow)) : get_roots(workflow)[i] \in Comps

RECURSIVE StartRoots(_, _, _)
StartRoots(s, roots, i) ==
    IF i > Len(roots) THEN s
    ELSE StartRoots(process(s, roots[i], 0), roots, i + 1)

\* env.run(until) stopping only after the events due at the run time
RunUntil_Inclusive(s) ==
    IF run_time = <<>> THEN [s EXCEPT !.status = "running"]
    ELSE IF run_time[1] <= s.now THEN [s EXCEPT !.status = "failed"]
    ELSE schedule([s EXCEPT !.status = "running"], "URGENT", run_time[1] - s.now + 1,
                  "Until", 0, "None", TRUE)

\* env.run(until): the until event is urgent and due at the run time
RunUntil(s) ==
    IF run_time = <<>> THEN [s EXCEPT !.status = "running"]
    ELSE IF run_time[1] <= s.now THEN [s EXCEPT !.status = "failed"]
    ELSE schedule([s EXCEPT !.status = "running"], "URGENT", run_time[1] - s.now,
                  "Until", 0, "None", TRUE)

Start ==
    /\ status = "built"
    /\ IF RootsFound
       THEN Commit(RunUntil(StartRoots(Cur, get_roots(workflow), 1)))
       ELSE Commit([Cur EXCEPT !.status = "failed"])

(***************************************************************************)
(* env.step(): one action for each kind of event.                          *)
(***************************************************************************)
\* The model stops the clock at MaxClock; the until event is always taken
Ready(e) ==
    /\ status = "running"
    /\ queue # {}
    /\ e = NextEvent(queue)
    /\ IF e.kind = "Until" THEN TRUE ELSE e.time <= MaxClock

Pop(s, e) == [s EXCEPT !.queue = @ \ {e}, !.now = e.time, !.dispatched = Append(@, e)]

\* What the process sees of its input as its run begins
Seen(s, pid) ==
    LET tok == s.procs[pid].input
    IN  IF tok = 0 THEN s
        ELSE [s EXCEPT !.procs[pid].seenComp = s.containers[tok].targetComp,
                       !.procs[pid].seenHandler = s.containers[tok].targetHandler]

StepInitialize ==
    \E e \in queue :
        /\ Ready(e)
        /\ e.kind = "Initialize"
        /\ IF category(procs[e.pid].comp) = "generator"
           THEN Commit(GenStart(Seen(Pop(Cur, e), e.pid), e.pid))
           ELSE Commit(ResStart(Seen(Pop(Cur, e), e.pid), e.pid))

StepTimeout ==
    \E e \in queue :
        /\ Ready(e)
        /\ e.kind = "Timeout"
        /\ IF procs[e.pid].pc = "gen_timeout"
           THEN Commit(GenResume(Pop(Cur, e), e.pid))
           ELSE Commit(ResLeave(Pop(Cur, e), e.pid))

StepRequest ==
    \E e \in queue :
        /\ Ready(e)
        /\ e.kind = "Request"
        /\ Commit(ResEnter(Pop(Cur, e), e.pid))

StepRelease ==
    \E e \in queue :
        /\ Ready(e)
        /\ e.kind = "Release"
        /\ Commit(_trigger_put(Pop(Cur, e), e.res))

\* The event of a finished process has no callbacks; a failed one is
\* raised by step() and ends the run
StepProcess ==
    \E e \in queue :
        /\ Ready(e)
        /\ e.kind = "Process"
        /\ Commit([Pop(Cur, e) EXCEPT !.status = IF e.ok THEN @ ELSE "crashed"])

StepUntil ==
    \E e \in queue :
        /\ Ready(e)
        /\ e.kind = "Until"
        /\ Commit([Pop(Cur, e) EXCEPT !.status = "stopped"])

\* The queue is empty: run() returns
Drain ==
    /\ status = "running"
    /\ queue = {}
    /\ Commit([Cur EXCEPT !.status = "drained"])

Next ==
    \/ Start
    \/ StepInitialize
    \/ StepTimeout
    \/ StepRequest
    \/ StepRelease
    \/ StepProcess
    \/ StepUntil
    \/ Drain

Spec == Init /\ [][Next]_vars

SpecChain == InitChain /\ [][Next]_vars

(***************************************************************************)
(* Properties.                                                             *)
(***************************************************************************)
Pids == 1..Len(procs)

\* The rows of the log written by comp with the given action, as indices
Rows(comp, action) ==
    {i \in 1..Len(log) : log[i].component_id = comp /\ log[i].action = action}

\* start() has returned normally: the queue ran empty or the run time was reached
Finished == status \in {"drained", "stopped"}

\* Process pid has been granted its server and has not yet left the with block
Holding(pid) ==
    \/ procs[pid].pc = "res_service"
    \/ procs[pid].pc = "res_request" /\ ~SeqContains(put_queue[procs[pid].comp], pid)

InService(r) == {pid \in Pids : procs[pid].comp = r /\ Holding(pid)}

\* C1: in every reachable state, for every Resource, the number of processes
\* that were granted its server and have not yet released it is at most its
\* capacity.
C1_InServiceAtMostCapacity ==
    \A r \in Ress : Cardinality(InService(r)) <= capacity[r]

\* A Resource with every unit in service while another token waits for it
C1_Witness ==
    \E r \in Ress : Cardinality(InService(r)) = capacity[r] /\ put_queue[r] # <<>>

\* The containers of the ENTER rows of r, in row order
EnterToks(r) ==
    LET rows == SelectSeq(log, LAMBDA row : row.component_id = r /\ row.action = "ENTER")
    IN  [i \in 1..Len(rows) |-> rows[i].PDV]

\* C2: waiters are served in arrival order: the ENTER rows of a Resource
\* are written for the run invocations in the order in which these asked
\* for the server.
C2_EnterInRequestOrder ==
    \A r \in Ress :
        /\ Len(EnterToks(r)) <= Len(requested[r])
        /\ \A i \in 1..Len(EnterToks(r)) :
               EnterToks(r)[i] = procs[requested[r][i]].input

\* A run invocation that found another waiter in front of it has entered
C2_Witness ==
    \E pid \in Pids : procs[pid].ahead >= 1 /\ procs[pid].pc \in {"res_service", "done"}

\* C3: when the run of the destination begins, the delivered container's
\* targetComp is the destination's id and its targetHandler is the
\* targetHandle of the edge find_connection_target returned for the pair the
\* container carried just before routing.
C3_DeliveredTargetIsRouteResult ==
    \A pid \in Pids :
        (procs[pid].pc # "created" /\ procs[pid].input # 0) =>
            \E k \in 1..Len(nextCalls) :
                LET call == nextCalls[k]
                    p == procs[pid]
                IN  /\ call.pid = pid
                    /\ call.tok = p.input
                    /\ call.outcome = "spawned"
                    /\ p.seenComp = p.comp
                    /\ find_connection_target(workflow, call.srcComp, call.srcHandler)
                         = <<[comp |-> p.seenComp, handler |-> p.seenHandler]>>
                    /\ \E i \in 1..Len(workflow.edges) :
                           /\ workflow.edges[i].source = call.srcComp
                           /\ workflow.edges[i].sourceHandle = call.srcHandler
                           /\ workflow.edges[i].target = p.seenComp
                           /\ workflow.edges[i].targetHandle = p.seenHandler

\* A container forwarded by a Resource has been delivered to the next one
C3_Witness ==
    \E pid \in Pids :
        /\ procs[pid].pc # "created"
        /\ procs[pid].input # 0
        /\ procs[pid].comp = "R2"
        /\ procs[pid].seenHandler = TIn

IsRoot(c) == SeqContains(get_roots(workflow), c)

\* The run time does not cut the n ticks of a generator short
NotCutShort(n) == run_time = <<>> \/ run_time[1] > n

\* C4: a Generator with gen_count = n that start() activates never writes
\* more than n GENERATE rows, and has written exactly n when the run has
\* ended without being cut short by run_time (run_time absent or > n).
C4_ExactlyNGenerateRows ==
    \A g \in Gens :
        (gen_count[g] # <<>> /\ IsRoot(g)) =>
            LET n == gen_count[g][1]
            IN  /\ Cardinality(Rows(g, "GENERATE")) <= n
                /\ (Finished /\ NotCutShort(n)) => Cardinality(Rows(g, "GENERATE")) = n

\* A finished run in which a generator has written its n >= 2 rows
C4_Witness ==
    \E g \in Gens :
        /\ gen_count[g] # <<>>
        /\ IsRoot(g)
        /\ gen_count[g][1] >= 2
        /\ Finished
        /\ NotCutShort(gen_count[g][1])
        /\ Cardinality(Rows(g, "GENERATE")) = gen_count[g][1]

\* Events i and j of the history were due at the same time and j, though
\* scheduled before i, was processed after it
Overtakes(i, j) ==
    /\ i < j
    /\ dispatched[i].time = dispatched[j].time
    /\ dispatched[i].eid > dispatched[j].eid

UnsetCalls == {k \in 1..Len(nextCalls) : nextCalls[k].tok # 0 /\ nextCalls[k].given = NoneStr}

\* C6: a container that reaches _next with its targetHandler unset is
\* routed from (targetComp, "T-out") when it carries exactly one payload
\* type T, and is dropped, no handler derived and no lookup made, when it
\* carries none or several.
C6_DefaultHandler ==
    \A k \in UnsetCalls :
        LET call == nextCalls[k]
            c == containers[call.tok]
        IN  IF Len(c.Data) = 1
            THEN /\ call.outcome \in {"no_route", "no_component", "spawned"}
                 /\ call.srcComp = call.by
                 /\ call.srcHandler = c.Data[1] \o <<"-", "o", "u", "t">>
            ELSE /\ call.outcome = "no_handler"
                 /\ call.pid = 0
                 /\ c.targetHandler = NoneStr
                 /\ \A pid \in Pids : procs[pid].input # call.tok

\* One container with a single type was routed on its "-out" handle and
\* one with two types was dropped
C6_Witness ==
    /\ \E k \in UnsetCalls :
           /\ Len(containers[nextCalls[k].tok].Data) = 1
           /\ nextCalls[k].outcome = "spawned"
           /\ nextCalls[k].srcHandler = UOut
    /\ \E k \in UnsetCalls :
           /\ Len(containers[nextCalls[k].tok].Data) = 2
           /\ nextCalls[k].outcome = "no_handler"

\* The _next calls of generators that found no edge, or no component
DroppedCalls ==
    {k \in 1..Len(nextCalls) :
        nextCalls[k].by \in Gens /\ nextCalls[k].outcome \in {"no_route", "no_component"}}

\* C7: when a generator's container finds no edge or no registered
\* destination, only that container is dropped: its GENERATE row is written,
\* no other component writes a row for it, no process is started for it, the
\* run does not fail, and the generator goes on to write the GENERATE rows of
\* all its n containers.
C7_DroppedTokenIsLocal ==
    \A k \in DroppedCalls :
        LET call == nextCalls[k]
            g == call.by
        IN  /\ \E i \in Rows(g, "GENERATE") : log[i].PDV = call.tok
            /\ \A i \in 1..Len(log) : log[i].PDV = call.tok => log[i].component_id = g
            /\ \A pid \in Pids : procs[pid].input # call.tok
            /\ status \notin {"crashed", "failed"}
            /\ (gen_count[g] # <<>> /\ IsRoot(g) /\ Finished /\ NotCutShort(gen_count[g][1]))
                   => Cardinality(Rows(g, "GENERATE")) = gen_count[g][1]

\* A finished run in which one generator lost all its containers for want
\* of an edge and the other for want of a registered destination
C7_Witness ==
    /\ Finished
    /\ \E k \in DroppedCalls :
           /\ nextCalls[k].outcome = "no_route"
           /\ gen_count[nextCalls[k].by] # <<>>
           /\ Cardinality(Rows(nextCalls[k].by, "GENERATE")) >= 2
    /\ \E k \in DroppedCalls :
           /\ nextCalls[k].outcome = "no_component"
           /\ gen_count[nextCalls[k].by] # <<>>
           /\ Cardinality(Rows(nextCalls[k].by, "GENERATE")) >= 2

\* start() has returned and every process started has run to its end
Completed == Finished /\ \A pid \in Pids : procs[pid].pc = "done"

\* The graph is the chain Generator G1 -> Resource R1
ChainG1R1 == workflow = load_edges(<<EdgeG1R1>>) /\ GenList["G1"] = <<TypeT>>

\* C8, as claimed: every input served by a Resource gets a row with action
\* "ENTER" and afterwards a row with action "EXIT" for the same container,
\* and in a completed run of a chain Generator -> Resource the numbers of
\* GENERATE, ENTER and EXIT rows are equal.
C8_EnterThenExitRows ==
    Completed =>
        /\ \A r \in Ress : \A i \in Rows(r, "ENTER") :
               \E j \in Rows(r, "EXIT") : j > i /\ log[j].PDV = log[i].PDV
        /\ ChainG1R1 =>
               /\ Cardinality(Rows("R1", "ENTER")) = Cardinality(Rows("G1", "GENERATE"))
               /\ Cardinality(Rows("R1", "EXIT")) = Cardinality(Rows("G1", "GENERATE"))

\* Generator(gen_count=5) -> Resource(capacity=1), runTime=100
ScenarioS2 ==
    /\ ChainG1R1
    /\ gen_count["G1"] = <<5>>
    /\ capacity["R1"] = 1
    /\ run_time = <<100>>

\* The container of the k-th GENERATE row of generator g
KthToken(g, k) ==
    LET rows == SelectSeq(log, LAMBDA row : row.component_id = g /\ row.action = "GENERATE")
    IN  rows[k].PDV

\* The rows by which Resource r reports that container tok left its server,
\* whichever way the action is spelt
ExitRows(r, tok) ==
    {i \in 1..Len(log) : /\ log[i].component_id = r
                         /\ log[i].action \in {"EXIT", "Exit"}
                         /\ log[i].PDV = tok}

\* C9, as claimed: in scenario S2 the exit row of the k-th token is written
\* at virtual time 2k, for k = 1..5.
C9_ExitAtTwoK ==
    (ScenarioS2 /\ Finished) =>
        \A k \in 1..5 :
            /\ ExitRows("R1", KthToken("G1", k)) # {}
            /\ \A i \in ExitRows("R1", KthToken("G1", k)) : log[i].time = 2 * k

\* C9, amended: in scenario S2 the exit row of the k-th token is written
\* at virtual time k + 1, for k = 1..5: no exit row is written at another
\* time, and when the run has ended each of the five tokens has one.
C9_ExitAtKPlusOne ==
    ScenarioS2 =>
        /\ \A k \in 1..Cardinality(Rows("G1", "GENERATE")) :
               /\ Cardinality(ExitRows("R1", KthToken("G1", k))) <= 1
               /\ \A i \in ExitRows("R1", KthToken("G1", k)) : log[i].time = k + 1
        /\ Finished =>
               /\ Cardinality(Rows("G1", "GENERATE")) = 5
               /\ \A k \in 1..5 : ExitRows("R1", KthToken("G1", k)) # {}

\* Scenario S2 has run to its end and the fifth token has left the Resource
C9_Witness ==
    /\ ScenarioS2
    /\ Finished
    /\ Cardinality(Rows("G1", "GENERATE")) = 5
    /\ ExitRows("R1", KthToken("G1", 5)) # {}

\* C10: the ENTER rows of a Resource of capacity 1 carry strictly
\* increasing times in row order: no two tokens enter at the same time.
C10_EnterTimesStrictlyIncrease ==
    \A r \in Ress :
        capacity[r] = 1 =>
            \A i, j \in Rows(r, "ENTER") : i < j => log[i].time < log[j].time

\* A Resource of capacity 1 fed by one generator has written the ENTER rows
\* of all five tokens of scenario S2
C10_Witness ==
    /\ ScenarioS2
    /\ Cardinality(Rows("R1", "ENTER")) = 5

\* Generator(gen_count=10) -> Resource(capacity=2) with a three-tick service
ScenarioS3 ==
    /\ ChainG1R1
    /\ gen_count["G1"] = <<10>>
    /\ capacity["R1"] = 2
    /\ service["R1"] = 3

\* The ENTER rows of Resource r for the k-th token of generator g
EnterRowsOfKth(r, g, k) ==
    {i \in Rows(r, "ENTER") :
        /\ Cardinality(Rows(g, "GENERATE")) >= k
        /\ log[i].PDV = KthToken(g, k)}

\* C11, as claimed: in scenario S3 the third token to arrive at the Resource
\* writes its ENTER row at virtual time 3, and at no instant are more than 2
\* tokens in service.
C11_ThirdEntersAtThree ==
    ScenarioS3 =>
        /\ Cardinality(InService("R1")) <= 2
        /\ \A i \in EnterRowsOfKth("R1", "G1", 3) : log[i].time = 3

\* C11, amended: in scenario S3 the third token, which arrives at time 3
\* while the first two hold the server, writes its ENTER row at virtual time
\* 4, when the first token leaves, and not earlier; once the clock has
\* passed 4 the row is there; at no instant are more than 2 tokens in
\* service.
C11_ThirdEntersAtFour ==
    ScenarioS3 =>
        /\ Cardinality(InService("R1")) <= 2
        /\ Cardinality(EnterRowsOfKth("R1", "G1", 3)) <= 1
        /\ \A i \in EnterRowsOfKth("R1", "G1", 3) : log[i].time = 4
        /\ \A i \in Rows("G1", "GENERATE") :
               (/\ Cardinality(Rows("G1", "GENERATE")) >= 3
                /\ log[i].PDV = KthToken("G1", 3)) => log[i].time = 3
        /\ now > 4 => EnterRowsOfKth("R1", "G1", 3) # {}

\* Scenario S3 with the third token in service beside the second
C11_Witness ==
    /\ ScenarioS3
    /\ EnterRowsOfKth("R1", "G1", 3) # {}
    /\ Cardinality(InService("R1")) = 2

\* A Generator with gen_count=3, an empty edge list and runTime=10
ScenarioS1 ==
    /\ workflow = load_edges(<<>>)
    /\ gen_count["G1"] = <<3>>
    /\ run_time = <<10>>

\* C12, as claimed: a Generator with gen_count=3, an empty edge list and
\* runTime=10 produces exactly three GENERATE rows, at virtual times 1, 2
\* and 3, and no other rows.
C12_ThreeGenerateRows ==
    (ScenarioS1 /\ Finished) =>
        /\ Len(log) = 3
        /\ \A k \in 1..3 : /\ log[k].component_id = "G1"
                           /\ log[k].action = "GENERATE"
                           /\ log[k].time = k

\* The cycle Gen -> A -> B -> A, B routed back to A's -in handle, with a
\* finite run time
ScenarioS4 ==
    /\ workflow = load_edges(<<EdgeG1R1, EdgeR1R2, EdgeR2R1>>)
    /\ GenList["G1"] = <<TypeT>>
    /\ run_time # <<>>

\* The rows the Resources wrote for container tok, in row order
VisitRows(tok) ==
    SelectSeq(log, LAMBDA row : row.component_id \in Ress /\ row.PDV = tok)

\* The rows of a token that visits A and B alternately, each visit writing
\* a row with action "ENTER" and then a row with the given exit action
Alternates(rows, exit) ==
    \A n \in 1..Len(rows) :
        /\ rows[n].component_id = (IF ((n - 1) \div 2) % 2 = 0 THEN "R1" ELSE "R2")
        /\ rows[n].action = (IF n % 2 = 1 THEN "ENTER" ELSE exit)

\* C13, as claimed: with a finite run time and the cycle Gen -> A -> B -> A,
\* every token visits A and B alternately, each visit writing an ENTER row
\* and then an EXIT row; start() does not fail, and once the run time is
\* reached no further event is dispatched (the until event is the last one).
C13_CycleHaltsAtRunTime ==
    ScenarioS4 =>
        /\ \A tok \in 1..Len(containers) : Alternates(VisitRows(tok), "EXIT")
        /\ status \notin {"failed", "crashed"}
        /\ status = "stopped" => dispatched[Len(dispatched)].kind = "Until"

(***************************************************************************)
(* A simulation that is built and never started, for the specifications    *)
(* that study one object on its own.                                       *)
(***************************************************************************)
NoSimulation ==
    /\ gen_count = [g \in Gens |-> <<0>>]
    /\ capacity = [r \in Ress |-> 1]
    /\ service = [r \in Ress |-> ServiceTime]
    /\ GenList = [g \in Gens |-> <<>>]
    /\ workflow = EmptyGraph
    /\ run_time = <<>>
    /\ Constructed
    /\ runs = FirstRun

(***************************************************************************)
(* WorkflowGraph on its own: an edge list is loaded, the graph is          *)
(* serialised with to_json, and the result is loaded again.                *)
(***************************************************************************)
MaxEdges == 3

\* The id the editor gives an edge: made of its four fields
EdgeId(s, sh, t, th) == <<"xy-edge__", s, sh, t, th>>

EdgeUniverse ==
    {Edge(s, sh, t, th, EdgeId(s, sh, t, th)) :
        s \in {"G1", "R1"}, sh \in {TOut, UOut}, t \in {"R1", "R2"}, th \in {TIn, UIn}}

\* The edge lists of up to MaxEdges edges
EdgesData == UNION {[1..n -> EdgeUniverse] : n \in 0..MaxEdges}

\* to_json with the two handles of every edge exchanged
to_json_SwapHandles(g) ==
    [i \in 1..Len(g.edges) |->
        [source |-> g.edges[i].source, target |-> g.edges[i].target,
         sourceHandle |-> g.edges[i].targetHandle,
         targetHandle |-> g.edges[i].sourceHandle, id |-> g.edges[i].id]]

\* graph.edges(data=True) from the i-th node on: the edges of each node in
\* node order, those of one node in the order of its adjacency
RECURSIVE EdgesFrom(_, _)
EdgesFrom(g, i) ==
    IF i > Len(g.nodes) THEN <<>>
    ELSE out_edges(g, g.nodes[i]) \o EdgesFrom(g, i + 1)

\* WorkflowGraph.to_json: one dictionary for each edge of the graph
to_json(g) ==
    LET es == EdgesFrom(g, 1)
    IN  [i \in 1..Len(es) |->
            [source |-> es[i].source, target |-> es[i].target,
             sourceHandle |-> es[i].sourceHandle,
             targetHandle |-> es[i].targetHandle, id |-> es[i].id]]

InitGraph ==
    /\ wg \in {[edges_data |-> l, graph |-> EmptyGraph, json |-> <<>>,
                again |-> EmptyGraph, step |-> "new"] : l \in EdgesData}
    /\ kv = Unused
    /\ gt = Unused
    /\ csv = Unused
    /\ ce = Unused
    /\ sb = Unused
    /\ NoSimulation

\* WorkflowGraph(edges_data)
WgLoad ==
    /\ wg.step = "new"
    /\ wg' = [wg EXCEPT !.graph = load_edges(wg.edges_data), !.step = "loaded"]
    /\ UNCHANGED <<simVars, kv, gt, csv, ce, sb, runs>>

\* to_json()
WgToJson ==
    /\ wg.step = "loaded"
    /\ wg' = [wg EXCEPT !.json = to_json(wg.graph), !.step = "serialised"]
    /\ UNCHANGED <<simVars, kv, gt, csv, ce, sb, runs>>

\* WorkflowGraph(json.loads(...)) of the serialised graph
WgLoadAgain ==
    /\ wg.step = "serialised"
    /\ wg' = [wg EXCEPT !.again = load_edges(wg.json), !.step = "reloaded"]
    /\ UNCHANGED <<simVars, kv, gt, csv, ce, sb, runs>>

NextGraph ==
    \/ WgLoad
    \/ WgToJson
    \/ WgLoadAgain

SpecGraph == InitGraph /\ [][NextGraph]_vars

\* No two edges of the list have the same (source, sourceHandle)
DistinctKeys(es) ==
    \A i, j \in 1..Len(es) :
        i # j => <<es[i].source, es[i].sourceHandle>> # <<es[j].source, es[j].sourceHandle>>

\* C14, as claimed: an edge list in which two edges have the same (source,
\* sourceHandle) is rejected, so a graph is loaded only from a list with
\* distinct keys, and in every loaded graph each (source, sourceHandle) has
\* at most one outgoing edge.
C14_DuplicateKeyRejected ==
    wg.step # "new" =>
        /\ DistinctKeys(wg.edges_data)
        /\ DistinctKeys(wg.graph.edges)

LookupNodes == {"G1", "R1", "R2"}

LookupHandles == {TOut, UOut, TIn, UIn}

\* The edges of the list with the given key
WithKey(es, s, h) == {i \in 1..Len(es) : es[i].source = s /\ es[i].sourceHandle = h}

\* C15, as claimed: for an edge list with pairwise distinct (source,
\* sourceHandle) keys, find_connection_target(s, h) returns (t, th) for every
\* edge (s, h, t, th) of the list, also when several edges join the same
\* pair of nodes through different handles, and None for every (s, h) that
\* is the key of no edge.
C15_LookupReturnsTheEdge ==
    (wg.step # "new" /\ DistinctKeys(wg.edges_data)) =>
        \A s \in LookupNodes, h \in LookupHandles :
            /\ \A i \in WithKey(wg.edges_data, s, h) :
                   find_connection_target(wg.graph, s, h) =
                       <<[comp |-> wg.edges_data[i].target,
                          handler |-> wg.edges_data[i].targetHandle]>>
            /\ WithKey(wg.edges_data, s, h) = {} =>
                   find_connection_target(wg.graph, s, h) = <<>>

\* The edges of a graph as a set
EdgeSet(g) == {g.edges[i] : i \in 1..Len(g.edges)}

\* C16: serialising a loaded graph with to_json and loading the result
\* again yields the same set of edges (source, sourceHandle, target,
\* targetHandle, id) and the same answer from find_connection_target for
\* every (source, sourceHandle).
C16_ToJsonRoundTrip ==
    wg.step = "reloaded" =>
        /\ EdgeSet(wg.again) = EdgeSet(wg.graph)
        /\ \A s \in LookupNodes, h \in LookupHandles :
               find_connection_target(wg.again, s, h) =
                   find_connection_target(wg.graph, s, h)

\* A graph of several edges that was serialised and loaded again, the
\* edges coming back in another order than they were first loaded in
C16_Witness ==
    /\ wg.step = "reloaded"
    /\ Len(wg.graph.edges) >= 2
    /\ wg.again.edges # wg.graph.edges

(***************************************************************************)
(* Python values of the kinds the stores hold.  A value is its class and   *)
(* a number standing for its content.  bool is a subclass of int.          *)
(***************************************************************************)
MaxVal == 1

Kinds == {"int", "float", "bool", "str", "dict"}

PyValues == [kind : Kinds, val : 0..MaxVal]

\* issubclass(k1, k2)
issubclass(k1, k2) == k1 = k2 \/ (k1 = "bool" /\ k2 = "int")

\* isinstance(v, k)
isinstance(v, k) == issubclass(v.kind, k)

\* A key that is not in a dictionary
Absent == [kind |-> "absent", val |-> 0]

(***************************************************************************)
(* KVStorage on its own.  kv.storage is the dictionary, kv.raised the      *)
(* exception of the last call ("None" when it returned), kv.returned the   *)
(* value get returned; kv.call and kv.before record the last call and the  *)
(* dictionary it found.                                                    *)
(***************************************************************************)
KvKeys == {"k1", "k2"}

NoCall == [op |-> "None", key |-> "None", value |-> Absent]

InitKV ==
    /\ kv = [storage |-> [k \in KvKeys |-> Absent], raised |-> "None",
             returned |-> Absent, call |-> NoCall,
             before |-> [k \in KvKeys |-> Absent]]
    /\ wg = Unused
    /\ gt = Unused
    /\ csv = Unused
    /\ ce = Unused
    /\ sb = Unused
    /\ NoSimulation

\* The record of a call: what was called, on which dictionary, how it ended
KvDone(op, key, value, storage, raised, returned) ==
    [storage |-> storage, raised |-> raised, returned |-> returned,
     call |-> [op |-> op, key |-> key, value |-> value],
     before |-> kv.storage]

\* KVStorage.set
KvSet ==
    \E key \in KvKeys, value \in PyValues :
        /\ kv' = KvDone("set", key, value, [kv.storage EXCEPT ![key] = value], "None", Absent)
        /\ UNCHANGED <<simVars, wg, gt, csv, ce, sb, runs>>

\* KVStorage.get
KvGet ==
    \E key \in KvKeys :
        /\ kv' = KvDone("get", key, Absent, kv.storage, "None", kv.storage[key])
        /\ UNCHANGED <<simVars, wg, gt, csv, ce, sb, runs>>

\* KVStorage.delete
KvDelete ==
    \E key \in KvKeys :
        /\ kv' = IF kv.storage[key] # Absent
                 THEN KvDone("delete", key, Absent, [kv.storage EXCEPT ![key] = Absent],
                             "None", Absent)
                 ELSE KvDone("delete", key, Absent, kv.storage, "KeyError", Absent)
        /\ UNCHANGED <<simVars, wg, gt, csv, ce, sb, runs>>

\* KVStorage.clear
KvClear ==
    /\ kv' = KvDone("clear", "None", Absent, [k \in KvKeys |-> Absent], "None", Absent)
    /\ UNCHANGED <<simVars, wg, gt, csv, ce, sb, runs>>

\* The test of update: isinstance(self.storage[key], type(value))
SameType(stored, value) == isinstance(stored, value.kind)

\* KVStorage.update
KvUpdate ==
    \E key \in KvKeys, value \in PyValues :
        /\ kv' = IF kv.storage[key] # Absent
                 THEN IF SameType(kv.storage[key], value)
                      THEN KvDone("update", key, value,
                                  [kv.storage EXCEPT ![key] = value], "None", Absent)
                      ELSE KvDone("update", key, value, kv.storage, "TypeError", Absent)
                 ELSE KvDone("update", key, value, kv.storage, "KeyError", Absent)
        /\ UNCHANGED <<simVars, wg, gt, csv, ce, sb, runs>>

NextKV ==
    \/ KvSet
    \/ KvGet
    \/ KvDelete
    \/ KvClear
    \/ KvUpdate

SpecKV == InitKV /\ [][NextKV]_vars

\* C17, as claimed: update(key, v) replaces the stored value only when key
\* is present and v's kind equals the kind of the stored value (int, float,
\* bool and str being distinct kinds); an absent key fails with not-found, a
\* kind mismatch with type-mismatch, and both leave the store unchanged.
C17_UpdateKeepsKind ==
    kv.call.op = "update" =>
        LET old == kv.before[kv.call.key]
        IN  IF old = Absent
            THEN kv.raised = "KeyError" /\ kv.storage = kv.before
            ELSE IF old.kind = kv.call.value.kind
            THEN /\ kv.raised = "None"
                 /\ kv.storage = [kv.before EXCEPT ![kv.call.key] = kv.call.value]
            ELSE kv.raised = "TypeError" /\ kv.storage = kv.before

(***************************************************************************)
(* GenTypes on its own.  gt.attributes is the attribute dictionary, each   *)
(* attribute a GenAttributes (type, value); gt.raised is the exception of  *)
(* the last call ("None" when it returned); gt.call and gt.before record   *)
(* the last call and the dictionary it found.                              *)
(***************************************************************************)
AttrNames == {"a1", "a2"}

\* The type names a caller may declare: the five known ones and another
DeclTypes == {"str", "int", "float", "bool", "dict", "list"}

\* The values given to attributes: one of each class
AttrValues == {v \in PyValues : v.val = 0}

\* An attribute name that is not in the dictionary
NoAttr == [type |-> "None", value |-> Absent]

GenAttributes(type, value) == [type |-> type, value |-> value]

\* GenTypes._type_check_helper
_type_check_helper(attr_type, attr_value) ==
    IF attr_type \in {"str", "int", "float", "bool", "dict"}
    THEN isinstance(attr_value, attr_type)
    ELSE FALSE

\* The attribute dictionaries loaded from genState.json at the start
LoadedAttributes ==
    { [n \in AttrNames |-> NoAttr],
      [n \in AttrNames |-> IF n = "a1" THEN GenAttributes("int", [kind |-> "int", val |-> 0])
                           ELSE NoAttr] }

InitGenTypes ==
    /\ gt \in {[attributes |-> d, raised |-> "None",
                call |-> [op |-> "None", name |-> "None", type |-> "None", value |-> Absent],
                before |-> d] : d \in LoadedAttributes}
    /\ wg = Unused
    /\ kv = Unused
    /\ csv = Unused
    /\ ce = Unused
    /\ sb = Unused
    /\ NoSimulation

\* The record of a call: what was called, on which dictionary, how it ended
GtDone(op, name, type, value, attributes, raised) ==
    [attributes |-> attributes, raised |-> raised,
     call |-> [op |-> op, name |-> name, type |-> type, value |-> value],
     before |-> gt.attributes]

\* GenTypes.create_attribute
GtCreate ==
    \E attr_name \in AttrNames, attr_type \in DeclTypes, attr_value \in AttrValues :
        /\ gt' = IF gt.attributes[attr_name] = NoAttr
                 THEN IF ~_type_check_helper(attr_type, attr_value)
                      THEN GtDone("create_attribute", attr_name, attr_type, attr_value,
                                  gt.attributes, "ValueError")
                      ELSE GtDone("create_attribute", attr_name, attr_type, attr_value,
                                  [gt.attributes EXCEPT
                                      ![attr_name] = GenAttributes(attr_type, attr_value)],
                                  "None")
                 ELSE GtDone("create_attribute", attr_name, attr_type, attr_value,
                             gt.attributes, "KeyError")
        /\ UNCHANGED <<simVars, wg, kv, csv, ce, sb, runs>>

\* GenTypes.update_value
GtUpdate ==
    \E attr_name \in AttrNames, new_value \in AttrValues :
        /\ gt' = IF gt.attributes[attr_name] # NoAttr
                 THEN GtDone("update_value", attr_name, "None", new_value,
                             [gt.attributes EXCEPT ![attr_name].value = new_value], "None")
                 ELSE GtDone("update_value", attr_name, "None", new_value,
                             gt.attributes, "KeyError")
        /\ UNCHANGED <<simVars, wg, kv, csv, ce, sb, runs>>

\* GenTypes.delete_attribute
GtDelete ==
    \E attr_name \in AttrNames :
        /\ gt' = IF gt.attributes[attr_name] # NoAttr
                 THEN GtDone("delete_attribute", attr_name, "None", Absent,
                             [gt.attributes EXCEPT ![attr_name] = NoAttr], "None")
                 ELSE GtDone("delete_attribute", attr_name, "None", Absent,
                             gt.attributes, "KeyError")
        /\ UNCHANGED <<simVars, wg, kv, csv, ce, sb, runs>>

NextGenTypes ==
    \/ GtCreate
    \/ GtUpdate
    \/ GtDelete

SpecGenTypes == InitGenTypes /\ [][NextGenTypes]_vars

\* The value's runtime kind is the declared type, one of the five
KindMatches(type, value) ==
    type \in {"str", "int", "float", "bool", "dict"} /\ value.kind = type

\* C18, as claimed: create_attribute adds the attribute only when the name
\* is absent and the value's runtime kind is the declared type (a bool is
\* not accepted for int); a duplicate name gives a conflict error, a kind
\* mismatch an error, delete_attribute and update_value on a missing
\* attribute give not-found, and every failing call leaves the attribute
\* map unchanged.
C18_CreateChecksKind ==
    /\ gt.call.op = "create_attribute" =>
           IF gt.before[gt.call.name] # NoAttr
           THEN gt.raised = "KeyError" /\ gt.attributes = gt.before
           ELSE IF KindMatches(gt.call.type, gt.call.value)
           THEN /\ gt.raised = "None"
                /\ gt.attributes = [gt.before EXCEPT ![gt.call.name] =
                                       GenAttributes(gt.call.type, gt.call.value)]
           ELSE gt.raised = "ValueError" /\ gt.attributes = gt.before
    /\ (gt.call.op \in {"delete_attribute", "update_value"}
            /\ gt.before[gt.call.name] = NoAttr) =>
           gt.raised = "KeyError" /\ gt.attributes = gt.before
    /\ gt.raised # "None" => gt.attributes = gt.before

\* C19, as claimed: after loading and after any sequence of
\* create_attribute, update_value and delete_attribute calls, the value of
\* every attribute matches its declared type (in the sense of the type
\* check create_attribute makes).
C19_ValuesMatchDeclaredType ==
    \A n \in AttrNames :
        gt.attributes[n] # NoAttr =>
            _type_check_helper(gt.attributes[n].type, gt.attributes[n].value)

(***************************************************************************)
(* CsvLogger on its own.  csv.file is what the file on disk holds, in      *)
(* rows; csv.buffer the rows written to the handle and not yet on disk;    *)
(* csv.buffer_size the budget of the buffer, in rows; csv.closed whether   *)
(* the handle is closed; csv.stderr the number of errors reported.         *)
(* History: csv.existing is the file as the constructor found it,          *)
(* csv.written the rows the writer took, csv.call the last call,           *)
(* csv.raised the exception it let out, csv.was the state it found.        *)
(***************************************************************************)
MaxRows == 3

MaxBuffer == 2

Events == {"e1", "e2"}

\* The file before the logger opens it: new, or with the rows of an
\* earlier run
ExistingFiles == {<<>>, <<"header", "e1">>}

\* The buffered handle takes a row: when the buffer is full it is written
\* out first
Write(c, row) ==
    IF Len(c.buffer) + 1 > c.buffer_size
    THEN [c EXCEPT !.file = @ \o c.buffer, !.buffer = <<row>>, !.written = Append(@, row)]
    ELSE [c EXCEPT !.buffer = Append(@, row), !.written = Append(@, row)]

\* CsvLogger.__init__: the file is opened for appending and a new file gets
\* the header
Opened(existing, buffer_size) ==
    LET c == [file |-> existing, buffer |-> <<>>, buffer_size |-> buffer_size,
              closed |-> FALSE, stderr |-> 0, existing |-> existing,
              written |-> <<>>, call |-> "None", raised |-> "None"]
    IN  IF Len(existing) = 0 THEN Write(c, "header") ELSE c

\* What a call finds: the file, the buffer and the handle's state
Found(c) == [file |-> c.file, buffer |-> c.buffer, closed |-> c.closed]

InitLogger ==
    /\ csv \in {[c EXCEPT !.call = "__init__"] @@ [was |-> Found(c)] :
                   c \in {Opened(f, b) : f \in ExistingFiles, b \in 1..MaxBuffer}}
    /\ wg = Unused
    /\ kv = Unused
    /\ gt = Unused
    /\ ce = Unused
    /\ sb = Unused
    /\ NoSimulation

\* The call is recorded with the state it found and the exception it let
\* out
Called(c, name, exc) == [c EXCEPT !.call = name, !.raised = exc, !.was = Found(csv)]

\* self._writer.writerow(event): a closed handle raises ValueError; a disk
\* that refuses the buffer when it has to be written out raises OSError;
\* either way the row is not taken
writerow(c, event, disk_ok) ==
    IF c.closed THEN [c |-> c, exc |-> "ValueError"]
    ELSE IF Len(c.buffer) + 1 > c.buffer_size /\ ~disk_ok
         THEN [c |-> c, exc |-> "OSError"]
         ELSE [c |-> Write(c, event), exc |-> "None"]

\* self._file.flush(): the buffer goes to disk; ValueError on a closed
\* handle, OSError when the disk refuses
file_flush(c, disk_ok) ==
    IF c.closed THEN [c |-> c, exc |-> "ValueError"]
    ELSE IF c.buffer # <<>> /\ ~disk_ok
         THEN [c |-> c, exc |-> "OSError"]
         ELSE [c |-> [c EXCEPT !.file = @ \o c.buffer, !.buffer = <<>>], exc |-> "None"]

\* A handler that reports the exception and raises it again
except_Exception_Reraise(r) ==
    IF r.exc = "None" THEN r
    ELSE [c |-> [r.c EXCEPT !.stderr = 1], exc |-> r.exc]

\* except Exception as e: print(..., file=sys.stderr): the exception is
\* reported and the method returns
except_Exception(r) ==
    IF r.exc = "None" THEN r
    ELSE [c |-> [r.c EXCEPT !.stderr = 1], exc |-> "None"]

\* CsvLogger.log_event
CsvLogEvent ==
    \E event \in Events, disk_ok \in BOOLEAN :
        /\ csv.call # "atexit"
        /\ Len(csv.written) <= MaxRows
        /\ LET r == except_Exception(writerow(csv, event, disk_ok))
           IN  csv' = Called(r.c, "log_event", r.exc)
        /\ UNCHANGED <<simVars, wg, kv, gt, ce, sb, runs>>

\* CsvLogger.flush
CsvFlush ==
    \E disk_ok \in BOOLEAN :
        /\ csv.call # "atexit"
        /\ LET r == except_Exception(file_flush(csv, disk_ok))
           IN  csv' = Called(r.c, "flush", r.exc)
        /\ UNCHANGED <<simVars, wg, kv, gt, ce, sb, runs>>

\* close that drops what the buffer holds
close_NoFlush(c) ==
    IF c.closed THEN c
    ELSE [c EXCEPT !.buffer = <<>>, !.closed = TRUE]

\* CsvLogger.close: self._file.close() writes the buffer out and closes the
\* handle; on a closed handle it does nothing
close(c) ==
    IF c.closed THEN c
    ELSE [c EXCEPT !.file = @ \o c.buffer, !.buffer = <<>>, !.closed = TRUE]

\* A call of close by the program
CsvClose ==
    /\ csv.call # "atexit"
    /\ csv' = Called(close(csv), "close", "None")
    /\ UNCHANGED <<simVars, wg, kv, gt, ce, sb, runs>>

\* The call of close registered with atexit, at process teardown
CsvAtExit ==
    /\ csv.call # "atexit"
    /\ csv' = Called(close(csv), "atexit", "None")
    /\ UNCHANGED <<simVars, wg, kv, gt, ce, sb, runs>>

NextLogger ==
    \/ CsvLogEvent
    \/ CsvFlush
    \/ CsvClose
    \/ CsvAtExit

SpecLogger == InitLogger /\ [][NextLogger]_vars

C22_FailuresStayInLogger ==
    csv.call \in {"log_event", "flush"} =>
        /\ csv.raised = "None"
        /\ csv.was.closed => csv.stderr = 1 /\ csv.file = csv.was.file

\* log_event has met a closed handle after a row was taken: the failure was
\* reported and nothing was raised
C22_Witness ==
    /\ csv.call = "log_event"
    /\ csv.was.closed
    /\ csv.stderr = 1
    /\ csv.raised = "None"
    /\ Len(csv.written) >= 1

(***************************************************************************)
(* CsvLogger under threads.  Each thread calls log_event, flush and close; *)
(* a call takes self.lock, works on the handle and gives the lock back.    *)
(* A row reaches the handle in two pieces, so a write that another thread  *)
(* could cut into would show.  csv.lock is the thread holding the lock,    *)
(* csv.pc and csv.method where each thread stands and in which call,       *)
(* csv.stream the pieces the handle has taken, csv.disk how many of them   *)
(* are on disk, csv.closed whether the handle is closed.                   *)
(***************************************************************************)
MaxCalls == 2

Threads == {"t1", "t2"}

Methods == {"log_event", "flush", "close"}

\* A lock that never makes a thread wait
LockFree_Always(c) == TRUE

\* with self.lock: the thread goes on when no thread holds the lock
LockFree(c) == c.lock = "None"

InitThreads ==
    /\ csv = [lock |-> "None",
              pc |-> [t \in Threads |-> "idle"],
              method |-> [t \in Threads |-> "None"],
              calls |-> [t \in Threads |-> 0],
              stream |-> <<>>, disk |-> 0, closed |-> FALSE, stderr |-> 0]
    /\ wg = Unused
    /\ kv = Unused
    /\ gt = Unused
    /\ ce = Unused
    /\ sb = Unused
    /\ NoSimulation

\* A thread calls a method of the logger
ThCall ==
    \E t \in Threads, m \in Methods :
        /\ csv.pc[t] = "idle"
        /\ csv.calls[t] < MaxCalls
        /\ csv' = [csv EXCEPT !.pc[t] = "acquire", !.method[t] = m, !.calls[t] = @ + 1]
        /\ UNCHANGED <<simVars, wg, kv, gt, ce, sb, runs>>

\* with self.lock: __enter__
ThAcquire ==
    \E t \in Threads :
        /\ csv.pc[t] = "acquire"
        /\ LockFree(csv)
        /\ csv' = [csv EXCEPT !.lock = t, !.pc[t] = "locked"]
        /\ UNCHANGED <<simVars, wg, kv, gt, ce, sb, runs>>

\* writerow begins: the first piece of the row, or ValueError on a closed
\* handle, which leaves the with block
ThWriteFirst ==
    \E t \in Threads :
        /\ csv.pc[t] = "locked"
        /\ csv.method[t] = "log_event"
        /\ csv' = IF csv.closed
                  THEN [csv EXCEPT !.pc[t] = "release", !.stderr = 1]
                  ELSE [csv EXCEPT !.pc[t] = "writing",
                                   !.stream = Append(@, [thread |-> t, piece |-> 1])]
        /\ UNCHANGED <<simVars, wg, kv, gt, ce, sb, runs>>

\* writerow ends: the rest of the row
ThWriteRest ==
    \E t \in Threads :
        /\ csv.pc[t] = "writing"
        /\ csv' = [csv EXCEPT !.pc[t] = "release",
                              !.stream = Append(@, [thread |-> t, piece |-> 2])]
        /\ UNCHANGED <<simVars, wg, kv, gt, ce, sb, runs>>

\* self._file.flush() under the lock
ThFlush ==
    \E t \in Threads :
        /\ csv.pc[t] = "locked"
        /\ csv.method[t] = "flush"
        /\ csv' = IF csv.closed
                  THEN [csv EXCEPT !.pc[t] = "release", !.stderr = 1]
                  ELSE [csv EXCEPT !.pc[t] = "release", !.disk = Len(csv.stream)]
        /\ UNCHANGED <<simVars, wg, kv, gt, ce, sb, runs>>

\* self._file.close() under the lock
ThClose ==
    \E t \in Threads :
        /\ csv.pc[t] = "locked"
        /\ csv.method[t] = "close"
        /\ csv' = IF csv.closed
                  THEN [csv EXCEPT !.pc[t] = "release"]
                  ELSE [csv EXCEPT !.pc[t] = "release", !.disk = Len(csv.stream),
                                   !.closed = TRUE]
        /\ UNCHANGED <<simVars, wg, kv, gt, ce, sb, runs>>

\* with self.lock: __exit__, on return and on an exception alike
ThRelease ==
    \E t \in Threads :
        /\ csv.pc[t] = "release"
        /\ csv' = [csv EXCEPT !.lock = "None", !.pc[t] = "idle"]
        /\ UNCHANGED <<simVars, wg, kv, gt, ce, sb, runs>>

NextThreads ==
    \/ ThCall
    \/ ThAcquire
    \/ ThWriteFirst
    \/ ThWriteRest
    \/ ThFlush
    \/ ThClose
    \/ ThRelease

SpecThreads == InitThreads /\ [][NextThreads]_vars

\* The threads that are writing to, flushing or closing the file
InFile == {t \in Threads : csv.pc[t] \in {"locked", "writing", "release"}}

\* The pieces of each row lie side by side in the stream; the last row may
\* lack its second piece only while its thread is still writing it
RowsWhole ==
    \A i \in 1..Len(csv.stream) :
        IF i % 2 = 1
        THEN /\ csv.stream[i].piece = 1
             /\ i = Len(csv.stream) => csv.pc[csv.stream[i].thread] = "writing"
        ELSE /\ csv.stream[i].piece = 2
             /\ csv.stream[i].thread = csv.stream[i - 1].thread

\* C21: the logger serialises concurrent use: at most one thread at a time
\* is writing to, flushing or closing the file, that thread holds the lock,
\* and the rows reach the file whole, never cut into by another thread's.
C21_OneThreadInFile ==
    /\ Cardinality(InFile) <= 1
    /\ \A t \in InFile : csv.lock = t
    /\ RowsWhole

\* One thread is in the middle of a row while the other waits for the lock,
\* after whole rows of both threads
C21_Witness ==
    /\ \E t \in Threads, u \in Threads :
           /\ csv.pc[t] = "writing"
           /\ csv.pc[u] = "acquire"
           /\ csv.method[u] = "log_event"
    /\ Len(csv.stream) >= 5
    /\ \A t \in Threads : \E i \in 1..Len(csv.stream) : csv.stream[i].thread = t

(***************************************************************************)
(* CodeExec on its own.  A fragment is known by what executing it does and *)
(* by what it binds the hook's name to; a namespace by what it binds that  *)
(* name to.  ce.code is the RunnerFile, ce.attrs the namespace attributes  *)
(* of the object.  History: ce.call the last call, ce.result what it       *)
(* returned, ce.raised the exception that came out of it.                  *)
(***************************************************************************)
Hooks == {"run", "generator", "model", "event"}

\* The function each execute_* method looks up
FuncName(hook) ==
    CASE hook = "run" -> "run"
      [] hook = "generator" -> "generate_data"
      [] hook = "model" -> "process_model"
      [] hook = "event" -> "handle_event"

\* The namespace each execute_* method looks it up in
ReadAttr(hook) ==
    CASE hook = "run" -> "_run_namespace"
      [] hook = "generator" -> "_generator_namespace"
      [] hook = "model" -> "_model_namespace"
      [] hook = "event" -> "_event_namespace"

\* The fragments: the empty string; one that does not parse; one that
\* raises when executed; one that defines other names only; one that binds
\* the hook's name to a value that is not callable; a function that returns
\* its input; one that raises; a generator function that yields and then
\* returns its input; one that raises while it is driven
Fragments == {"", "syntax_error", "raises_on_exec", "no_hook", "not_callable",
              "returns", "raises", "lazy", "lazy_raises"}

Callables == {"returns", "raises", "lazy", "lazy_raises"}

Inputs == {"in1", "in2"}

\* A namespace without the name
EmptyNamespace == "absent"

\* An attribute the object does not have
NoAttribute == "no attribute"

\* CodeExec._prepare_code: {} when the fragment does not parse or raises,
\* otherwise the namespace the fragment leaves
_prepare_code(code_str) ==
    IF code_str \in {"syntax_error", "raises_on_exec", "no_hook"} THEN EmptyNamespace
    ELSE code_str

\* CodeExec.__init__ up to its call of load
CodeExecAttrs ==
    [_run_namespace |-> EmptyNamespace, _generator_namespace |-> EmptyNamespace,
     _model_namespace |-> EmptyNamespace, _event_namespace |-> EmptyNamespace,
     run_namespace |-> NoAttribute, generator_namespace |-> NoAttribute]

\* CodeExec.load: the run and generator fragments are prepared when they
\* are not empty; the model and event fragments are not prepared
load(attrs, code) ==
    LET a1 == IF code.run # ""
              THEN [attrs EXCEPT !.run_namespace = _prepare_code(code.run)]
              ELSE attrs
    IN  IF code.generator # ""
        THEN [a1 EXCEPT !.generator_namespace = _prepare_code(code.generator)]
        ELSE a1

\* What a call returns: None, a value, or the generator object made by a
\* generator function (its body not yet run)
PyNone == [kind |-> "None", value |-> "None", driven |-> FALSE]

PyValue(v) == [kind |-> "value", value |-> v, driven |-> FALSE]

GeneratorObject(binding, input_data) ==
    [kind |-> binding, value |-> input_data, driven |-> FALSE]

\* CodeExec._execute_simulation_function on what the namespace binds the
\* name to
_execute_simulation_function(binding, input_data) ==
    IF binding = EmptyNamespace THEN [result |-> PyNone, raised |-> "None"]
    ELSE IF binding \notin Callables THEN [result |-> PyNone, raised |-> "None"]
    ELSE IF binding = "raises" THEN [result |-> PyNone, raised |-> "None"]
    ELSE IF binding = "returns" THEN [result |-> PyValue(input_data), raised |-> "None"]
    ELSE [result |-> GeneratorObject(binding, input_data), raised |-> "None"]

InitCodeExec ==
    /\ \E code \in [run : Fragments, generator : Fragments,
                    model : {"", "returns"}, event : {"", "lazy"}] :
           ce = [code |-> code, attrs |-> load(CodeExecAttrs, code),
                 call |-> [method |-> "__init__", hook |-> "None", input |-> "None"],
                 result |-> PyNone, raised |-> "None"]
    /\ wg = Unused
    /\ kv = Unused
    /\ gt = Unused
    /\ csv = Unused
    /\ sb = Unused
    /\ NoSimulation

\* execute_run, execute_generator, execute_model, execute_event
CeExecute ==
    \E hook \in Hooks, input_data \in Inputs :
        /\ LET r == _execute_simulation_function(ce.attrs[ReadAttr(hook)], input_data)
           IN  ce' = [ce EXCEPT !.call = [method |-> "execute", hook |-> hook,
                                          input |-> input_data],
                                !.result = r.result, !.raised = r.raised]
        /\ UNCHANGED <<simVars, wg, kv, gt, csv, sb, runs>>

\* _execute_simulation_function called with a namespace that load prepared
CeExecuteFunction ==
    \E hook \in {"run", "generator"}, input_data \in Inputs :
        /\ LET attr == IF hook = "run" THEN "run_namespace" ELSE "generator_namespace"
               r == _execute_simulation_function(ce.attrs[attr], input_data)
           IN  /\ ce.attrs[attr] # NoAttribute
               /\ ce' = [ce EXCEPT !.call = [method |-> "_execute_simulation_function",
                                             hook |-> hook, input |-> input_data],
                                   !.result = r.result, !.raised = r.raised]
        /\ UNCHANGED <<simVars, wg, kv, gt, csv, sb, runs>>

\* The caller iterates the generator object it was handed: the hook's body
\* runs now, in the caller, and returns its value or raises
CeDrive ==
    /\ ce.result.kind \in {"lazy", "lazy_raises"}
    /\ ~ce.result.driven
    /\ ce' = [ce EXCEPT !.call.method = "drive",
                        !.result.driven = TRUE,
                        !.raised = IF ce.result.kind = "lazy_raises"
                                   THEN "Exception" ELSE "None"]
    /\ UNCHANGED <<simVars, wg, kv, gt, csv, sb, runs>>

NextCodeExec ==
    \/ CeExecute
    \/ CeExecuteFunction
    \/ CeDrive

SpecCodeExec == InitCodeExec /\ [][NextCodeExec]_vars

\* What the fragment of a hook binds the hook's name to
Defined(hook) == _prepare_code(ce.code[hook])

\* C23: a bridge call execute_* answers from the fragment loaded for its
\* hook: when the fragment defines a callable of the hook's name the call
\* returns what the callable returns for the input (the generator object
\* for a generator function), and when the name is absent or not callable
\* it returns None.
C23_ExecuteCallsLoadedHook ==
    ce.call.method = "execute" =>
        LET binding == Defined(ce.call.hook)
        IN  /\ binding = "returns" => ce.result = PyValue(ce.call.input)
            /\ binding \in {"lazy", "lazy_raises"} =>
                   ce.result = GeneratorObject(binding, ce.call.input)
            /\ binding \notin Callables => ce.result = PyNone

\* C24: no exception of a user hook comes out of the bridge: not from a
\* call of the hook, which returns None when the hook raises, and not while
\* the generator object of a lazy hook is driven.
C24_HookErrorsSurfaceAsNone ==
    /\ ce.raised = "None"
    /\ (/\ ce.call.method = "_execute_simulation_function"
        /\ ce.attrs[IF ce.call.hook = "run" THEN "run_namespace"
                    ELSE "generator_namespace"] = "raises") => ce.result = PyNone

(***************************************************************************)
(* SimulationBuilder.build and start on their own.  sb.dataState is the    *)
(* component store in the order of the file, each definition with its id,  *)
(* its category and the capacity its inputData gives (Absent when it gives *)
(* none); sb.roots the roots of the workflow.  sb.components is the        *)
(* builder's dictionary of instances, sb.registry Component.registry,      *)
(* sb.started the components whose run process start() has launched.       *)
(* History: sb.call the last call, sb.raised the exception it let out,     *)
(* sb.returned what a lookup returned.                                     *)
(***************************************************************************)
\* compReg: the categories with a registered constructor
compReg == {"generator", "resource"}

CompIds == <<"c1", "c2">>

\* What inputData can hold under "capacity": an int, a str, a bool, or
\* nothing
CapacityValues == {v \in PyValues : v.kind \in {"int", "bool", "str"}} \cup {Absent}

\* A component definition of dataState.json
CompData(id) ==
    {[id |-> id, category |-> "generator", capacity |-> Absent],
     [id |-> id, category |-> "queue", capacity |-> Absent]}
    \cup {[id |-> id, category |-> "resource", capacity |-> c] : c \in CapacityValues}

DataStates ==
    {<<d>> : d \in CompData(CompIds[1])}
    \cup {<<d1, d2>> : d1 \in CompData(CompIds[1]), d2 \in CompData(CompIds[2])}

\* CodeExec(code=compData.Runners): __init__ takes code, im_Comp and im_Gen,
\* and the call gives one of the three
CodeExecCall == "TypeError"

\* Component.__init__: the executor is made before the instance is
\* registered
Component__init__(d) == CodeExecCall

\* Generator.__init__
Generator__init__(d) == Component__init__(d)

\* simpy.Resource(env, capacity): ValueError unless capacity > 0
simpyResource(c) == IF c.val <= 0 THEN "ValueError" ELSE "None"

\* Resource.__init__: the base class first, then the capacity is validated
Resource__init__(d) ==
    IF Component__init__(d) # "None" THEN Component__init__(d)
    ELSE IF d.capacity = Absent THEN "ValueError"
    ELSE IF ~isinstance(d.capacity, "int") THEN "TypeError"
    ELSE simpyResource(d.capacity)

\* comp_class.create(env, compData)
create(d) ==
    IF d.category = "generator" THEN Generator__init__(d) ELSE Resource__init__(d)

\* One round of a loop that passes over a definition it cannot build
BuildOne_Lenient(b, d) == b

\* One round of the loop of build: the category must be registered, the
\* instance is created (and registers itself) and kept in components; an
\* exception leaves build
BuildOne(b, d) ==
    IF d.category \notin compReg THEN [b EXCEPT !.raised = "ValueError"]
    ELSE IF create(d) # "None" THEN [b EXCEPT !.raised = create(d)]
    ELSE [b EXCEPT !.registry = @ \cup {d.id}, !.components = @ \cup {d.id}]

RECURSIVE build(_, _)
\* SimulationBuilder.build from the i-th definition on
build(b, i) ==
    IF i > Len(b.dataState) \/ b.raised # "None" THEN b
    ELSE build(BuildOne(b, b.dataState[i]), i + 1)

\* Component.comp_from_registery
comp_from_registery(b, compId) == IF compId \in b.registry THEN compId ELSE "None"

RECURSIVE find_root_comps(_, _)
\* SimulationBuilder.find_root_comps from the i-th root on: a root found
\* neither in the registry nor in components raises ValueError
find_root_comps(b, i) ==
    IF i > Len(b.roots) THEN b
    ELSE IF comp_from_registery(b, b.roots[i]) # "None" THEN find_root_comps(b, i + 1)
    ELSE IF b.roots[i] \in b.components
         THEN find_root_comps([b EXCEPT !.registry = @ \cup {b.roots[i]}], i + 1)
         ELSE [b EXCEPT !.raised = "ValueError"]

\* SimulationBuilder.start up to env.run: a process for every root
start(b) ==
    LET b1 == find_root_comps(b, 1)
    IN  IF b1.raised # "None" THEN b1
        ELSE [b1 EXCEPT !.started = {b.roots[i] : i \in 1..Len(b.roots)}]

InitBuild ==
    /\ \E ds \in DataStates, roots \in {<<>>, <<CompIds[1]>>} :
           sb = [dataState |-> ds, roots |-> roots, components |-> {}, registry |-> {},
                 started |-> {}, built |-> FALSE, build_raised |-> "None",
                 call |-> "__init__", raised |-> "None", returned |-> "None"]
    /\ wg = Unused
    /\ kv = Unused
    /\ gt = Unused
    /\ csv = Unused
    /\ ce = Unused
    /\ NoSimulation

\* builder.build()
SbBuild ==
    /\ ~sb.built
    /\ LET b == build([sb EXCEPT !.raised = "None"], 1)
       IN  sb' = [b EXCEPT !.call = "build", !.built = TRUE, !.build_raised = b.raised]
    /\ UNCHANGED <<simVars, wg, kv, gt, csv, ce, runs>>

\* Component.comp_from_registery(compId), as _next calls it
SbLookup ==
    \E i \in 1..Len(CompIds) :
        /\ sb.built
        /\ sb' = [sb EXCEPT !.call = "comp_from_registery", !.raised = "None",
                            !.returned = [compId |-> CompIds[i],
                                          comp |-> comp_from_registery(sb, CompIds[i])]]
        /\ UNCHANGED <<simVars, wg, kv, gt, csv, ce, runs>>

\* builder.start()
SbStart ==
    /\ sb.built
    /\ sb.call # "start"
    /\ sb' = [start([sb EXCEPT !.raised = "None"]) EXCEPT !.call = "start"]
    /\ UNCHANGED <<simVars, wg, kv, gt, csv, ce, runs>>

NextBuild ==
    \/ SbBuild
    \/ SbLookup
    \/ SbStart

SpecBuild == InitBuild /\ [][NextBuild]_vars

\* The definitions of dataState
Definitions == {sb.dataState[i] : i \in 1..Len(sb.dataState)}

\* A capacity that is an integer >= 1
IntegerAtLeastOne(c) == c # Absent /\ c.kind = "int" /\ c.val >= 1

\* The configuration errors: an unregistered category, a Resource without
\* a capacity that is an integer >= 1
ConfigurationError ==
    \E d \in Definitions :
        \/ d.category \notin compReg
        \/ d.category = "resource" /\ ~IntegerAtLeastOne(d.capacity)

ValidConfiguration == ~ConfigurationError

\* C26: after build() of a valid configuration every component of
\* dataState is constructed and kept, and from then on
\* comp_from_registery finds it by its compId.
C26_BuiltComponentsAreDiscoverable ==
    (sb.built /\ ValidConfiguration) =>
        /\ sb.build_raised = "None"
        /\ sb.components = {d.id : d \in Definitions}
        /\ \A d \in Definitions : comp_from_registery(sb, d.id) = d.id
        /\ (sb.call = "comp_from_registery"
            /\ \E d \in Definitions : d.id = sb.returned.compId)
               => sb.returned.comp = sb.returned.compId

(***************************************************************************)
(* Two runs of one configuration: when the first run is over the program   *)
(* is run again on the same files, and the CSV rows of the first run are   *)
(* kept for comparison.                                                    *)
(***************************************************************************)
\* The rows as the CSV writer renders them: the PDV field is the text of
\* the container, which shows its containerId
CsvRows ==
    [i \in 1..Len(log) |->
        [row |-> log[i],
         containerId |-> IF log[i].PDV = 0 THEN <<>>
                         ELSE containers[log[i].PDV].containerId]]

\* start() has returned or raised
RunOver == status \in {"drained", "stopped", "crashed", "failed"}

\* The state build() leaves, as a record
Built ==
    [now |-> 0, eid |-> 0, queue |-> {}, procs |-> <<>>,
     users |-> [r \in Ress |-> <<>>], put_queue |-> [r \in Ress |-> <<>>],
     run_call_count |-> [c \in Comps |-> 0], input_count |-> [c \in Comps |-> 0],
     generated_count |-> [g \in Gens |-> 0], containers |-> <<>>, log |-> <<>>,
     status |-> "built", nextCalls |-> <<>>, requested |-> [r \in Ress |-> <<>>],
     dispatched |-> <<>>]

\* The program is run a second time on the same configuration
Rerun ==
    /\ RunOver
    /\ runs.run = 1
    /\ runs' = [run |-> 2, csv |-> CsvRows]
    /\ Assign(Built)
    /\ UNCHANGED <<wg, kv, gt, csv, ce, sb>>

NextRuns ==
    \/ Next
    \/ Rerun

SpecRuns == InitChain /\ [][NextRuns]_vars

\* C27: two runs of the same configuration with the same runTime write the
\* same CSV rows: when the second run is over its rows, every field of
\* them, are those of the first run.
C27_RunsWriteTheSameRows ==
    (runs.run = 2 /\ RunOver) => CsvRows = runs.csv

\* The tokens waiting in front of Resource r, in the order of the queue
Waiting(r) == [k \in 1..Len(put_queue[r]) |-> procs[put_queue[r][k]].input]

\* The place of row i among the GENERATE rows of g
Emission(g, i) == Cardinality({j \in Rows(g, "GENERATE") : j <= i})

\* C28, as claimed: back-pressure: while a token waits for a saturated
\* Resource its Generator emits no later token, and no more tokens wait in
\* front of a Resource than there are producers.
C28_BackPressure ==
    \A r \in Ress :
        /\ \A k \in 1..Len(Waiting(r)) :
               \A i \in 1..Len(log) :
                   log[i].action = "GENERATE" => log[i].PDV <= Waiting(r)[k]
        /\ Len(Waiting(r)) <= Cardinality(Comps)

\* C28, amended: no back-pressure reaches the producer: a token forwarded
\* into a saturated Resource waits in a process of that Resource, and the
\* Generator goes on, its k-th GENERATE row written at virtual time k
\* whether or not earlier tokens wait; the tokens waiting are bounded only
\* by the tokens made.
C28_ProducerNeverBlocks ==
    /\ \A i \in Rows("G1", "GENERATE") : log[i].time = Emission("G1", i)
    /\ \A r \in Ress :
           /\ \A k \in 1..Len(put_queue[r]) : procs[put_queue[r][k]].comp = r
           /\ Len(put_queue[r]) <= Len(containers)

\* The fourth token is emitted while the second and the third wait for the
\* server the first still holds
C28_Witness ==
    /\ Len(Waiting("R1")) >= 2
    /\ \E i \in Rows("G1", "GENERATE") :
           /\ log[i].PDV > Waiting("R1")[2]
           /\ log[i].time = 4

\* The capacity units of r: who holds one, who waits for one
Held(r) == {users[r][k] : k \in 1..Len(users[r])}

\* Process pid is inside its seize scope with its request granted
InScope(pid) == procs[pid].pc \in {"res_request", "res_service"}

\* C29: a seize scope releases on every exit path: a capacity unit is held
\* only by a process of the Resource that is inside its seize scope; a
\* process that left the scope, by the end of the service step or by an
\* error raised in it, holds none, from the very step in which it left.
C29_ScopeReleasesOnEveryExit ==
    \A r \in Ress :
        \A pid \in Held(r) :
            /\ procs[pid].comp = r
            /\ InScope(pid)

\* A process has left its scope by an error raised after its ENTER row, and
\* the run has ended on it: the process holds no unit
C29_Witness ==
    \E pid \in 1..Len(procs) :
        /\ procs[pid].pc = "failed"
        /\ procs[pid].comp = "R1"
        /\ \E i \in Rows("R1", "ENTER") : log[i].PDV = procs[pid].input
        /\ pid \notin Held("R1")
        /\ status = "crashed"

\* The rows a step adds to the log carry the virtual time of that step
RowsStampedNow ==
    Len(log') >= Len(log) =>
        \A i \in (Len(log) + 1)..Len(log') : log'[i].time = now'

\* The rows lie in the log in non-decreasing time order, none ahead of the
\* clock
RowsInTimeOrder ==
    /\ \A i \in 1..Len(log) : log[i].time <= now
    /\ \A i \in 1..Len(log), j \in 1..Len(log) : i < j => log[i].time <= log[j].time

\* C30: every row's time field is the virtual time at which it was written,
\* the time of the step of the component that logged it, and the rows of a
\* run appear in the log in non-decreasing time order.
C30_RowTimeIsNow == [][RowsStampedNow]_vars /\ []RowsInTimeOrder

\* Rows of the same tick written by different components, after rows of
\* earlier ticks
C30_Witness ==
    \E i \in 1..Len(log), j \in 1..Len(log), k \in 1..Len(log) :
        /\ i < j
        /\ j < k
        /\ log[i].time < log[j].time
        /\ log[j].time = log[k].time
        /\ log[j].component_id # log[k].component_id
        /\ log[k].time = now
        /\ now >= 3

\* The processes a step spawns are left waiting for their first step: their
\* run has not begun when the step of the spawning process ends
SpawnedNotStarted ==
    Len(procs') >= Len(procs) =>
        \A pid \in (Len(procs) + 1)..Len(procs') : procs'[pid].pc = "created"

\* The GENERATE row of a token comes before every other row written for it
GenerateRowFirst ==
    \A i \in 1..Len(log), j \in 1..Len(log) :
        (/\ log[i].action = "GENERATE"
         /\ log[j].PDV = log[i].PDV
         /\ j # i) => i < j

\* C31: a component that spawns its successor through _next sees none of
\* the successor's steps before its own next suspension: the successor's
\* run has not begun when the spawning step ends, and the GENERATE row of a
\* token precedes every row a successor writes for it.
C31_SuccessorStartsAfterSuspension ==
    [][SpawnedNotStarted]_vars /\ []GenerateRowFirst

\* A successor has been spawned for a token whose GENERATE row is written,
\* and has not taken its first step: no other row for the token, while an
\* earlier token has already gone through the successor
C31_Witness ==
    \E pid \in Pids :
        /\ procs[pid].pc = "created"
        /\ procs[pid].input # 0
        /\ \E i \in 1..Len(log) :
               /\ log[i].action = "GENERATE"
               /\ log[i].PDV = procs[pid].input
               /\ \A j \in 1..Len(log) : log[j].PDV = log[i].PDV => j = i
        /\ \E j \in 1..Len(log) : log[j].action = "ENTER"

\* The run invocations on comp whose body has begun, and those of them that
\* were given an input
Invocations(comp) == {pid \in Pids : procs[pid].comp = comp /\ procs[pid].pc # "created"}

Delivered(comp) == {pid \in Invocations(comp) : procs[pid].input # 0}

\* C32: for every component, in every reachable state, runCallCount is the
\* number of run invocations made on it and inputCount the number of inputs
\* delivered to it.
C32_CountersCountInvocations ==
    \A c \in Comps :
        /\ run_call_count[c] = Cardinality(Invocations(c))
        /\ input_count[c] = Cardinality(Delivered(c))

\* What _next(output) called by self on container tok would leave, and the
\* record of that call
AfterNext(self, tok) == _next(Cur, self, tok)

LastCall(s) == s.nextCalls[Len(s.nextCalls)]

\* Nothing but the routing fields of container tok differs between the
\* state of the run and s
OnlyRoutingFieldsChanged(s, tok) ==
    /\ s.procs = procs
    /\ s.queue = queue
    /\ s.eid = eid
    /\ s.now = now
    /\ s.log = log
    /\ s.status = status
    /\ s.users = users
    /\ s.put_queue = put_queue
    /\ s.run_call_count = run_call_count
    /\ s.input_count = input_count
    /\ s.generated_count = generated_count
    /\ Len(s.containers) = Len(containers)
    /\ \A t \in 1..Len(containers) :
           IF t = tok
           THEN /\ s.containers[t].Data = containers[t].Data
                /\ s.containers[t].containerId = containers[t].containerId
           ELSE s.containers[t] = containers[t]

\* C33: when _next does not forward (output absent, no handler to derive,
\* no matching edge, destination not in the registry) it spawns no process,
\* schedules nothing, writes no row and changes no counter; only the
\* routing fields of the container it was given may have changed.
C33_NoForwardLeavesStateAlone ==
    \A self \in Comps, tok \in 0..Len(containers) :
        LastCall(AfterNext(self, tok)).outcome # "spawned" =>
            OnlyRoutingFieldsChanged(AfterNext(self, tok), tok)

\* _next calls of the run have ended at a missing destination, the
\* container left with the destination's pair, and at a missing edge
C33_Witness ==
    /\ \E k \in 1..Len(nextCalls) :
           /\ nextCalls[k].outcome = "no_component"
           /\ containers[nextCalls[k].tok].targetComp = nextCalls[k].dst.comp
           /\ containers[nextCalls[k].tok].targetComp # nextCalls[k].by
    /\ \E k \in 1..Len(nextCalls) : nextCalls[k].outcome \in {"no_route", "no_handler"}

(***************************************************************************)
(* The chain G1 -> R1 -> R2 with the target handle of the first edge as    *)
(* edge.json may spell it: "T-in", "T-x" or, without a dash, "T".          *)
(***************************************************************************)
TX == TypeT \o <<Dash, "x">>

EdgeG1R1X == Edge("G1", TOut, "R1", TX, "e8")

EdgeG1R1Plain == Edge("G1", TOut, "R1", TypeT, "e9")

InitHandles ==
    /\ gen_count \in {[G1 |-> <<n>>, G2 |-> <<2>>] : n \in 0..MaxGenCount}
    /\ capacity \in {[R1 |-> c, R2 |-> 1] : c \in 1..MaxCap}
    /\ service = [r \in Ress |-> ServiceTime]
    /\ GenList = [G1 |-> <<TypeT>>, G2 |-> <<TypeU>>]
    /\ \E first \in {EdgeG1R1, EdgeG1R1X, EdgeG1R1Plain} :
           workflow = load_edges(<<first, EdgeR1R2>>)
    /\ run_time \in RunTimes
    /\ Constructed
    /\ NoObjects
    /\ runs = FirstRun

SpecHandles == InitHandles /\ [][Next]_vars

\* The handler a Resource is to route from, for the handler delivered
Rotated(handler) ==
    IF Unpacks(handler) THEN RSplitHead(handler) \o OutSuffix ELSE handler

\* The _next calls Resource r made for container tok delivered to process pid
ForwardCalls(r, pid) ==
    {k \in 1..Len(nextCalls) : /\ nextCalls[k].by = r
                               /\ nextCalls[k].tok = procs[pid].input
                               /\ nextCalls[k].srcComp = r
                               /\ nextCalls[k].srcHandler = Rotated(procs[pid].seenHandler)}

\* The processes of Resources that have written the exit row of their token
Left == {pid \in Pids : /\ procs[pid].comp \in Ress
                        /\ procs[pid].input # 0
                        /\ ExitRows(procs[pid].comp, procs[pid].input) # {}}

\* C34: a Resource routes the token it forwards from (its compId, "<X>-out")
\* when the token was delivered with "<X>-<anything>", and hands a token
\* whose handler has no "-" to _next with the handler unchanged, without
\* failing.
C34_HandleRotation ==
    /\ \A pid \in Left : ForwardCalls(procs[pid].comp, pid) # {}
    /\ \A pid \in Pids : procs[pid].pc # "failed"

\* The rows among the first n of the log by which Resource r reports an
\* entry to, or a departure from, its server
EnterRowsUpTo(r, n) ==
    {i \in 1..n : log[i].component_id = r /\ log[i].action = "ENTER"}

ExitRowsUpTo(r, n) ==
    {i \in 1..n : log[i].component_id = r /\ log[i].action \in {"EXIT", "Exit"}}

\* The tokens Resource r reports inside its server after the first n rows
Inside(r, n) == Cardinality(EnterRowsUpTo(r, n)) - Cardinality(ExitRowsUpTo(r, n))

\* C35: in every prefix of the log and for every Resource R of capacity c,
\* the ENTER rows of R minus the exit rows of R number between 0 and c, and
\* each token's exit row at R comes after its ENTER row at R.
C35_OccupancyWithinCapacity ==
    \A r \in Ress :
        /\ \A n \in 0..Len(log) : Inside(r, n) \in 0..capacity[r]
        /\ \A i \in ExitRowsUpTo(r, Len(log)) :
               /\ \E j \in EnterRowsUpTo(r, i) : log[j].PDV = log[i].PDV
               /\ Cardinality({j \in EnterRowsUpTo(r, i) : log[j].PDV = log[i].PDV})
                      >= Cardinality({j \in ExitRowsUpTo(r, i) : log[j].PDV = log[i].PDV})

\* A Resource of capacity 2 has reported two tokens inside at once, a
\* third waiting, and one of them out again
C35_Witness ==
    /\ capacity["R1"] = 2
    /\ \E n \in 1..Len(log) : Inside("R1", n) = 2
    /\ ExitRowsUpTo("R1", Len(log)) # {}
    /\ put_queue["R1"] # <<>>

\* The processes whose run has not returned or raised
Unfinished == {pid \in Pids : procs[pid].pc \notin {"done", "failed"}}

\* The _next calls that spawned a run of component c
SpawnsTo(c) ==
    {k \in 1..Len(nextCalls) : nextCalls[k].outcome = "spawned" /\ nextCalls[k].dst.comp = c}

\* The run invocations component c has received: the processes made for it
Received(c) == {pid \in Pids : procs[pid].comp = c}

\* The processes start() made: the roots, run with no input
RootActivations(c) == {pid \in Received(c) : procs[pid].input = 0}

\* C36: tokens are never duplicated.  No two unfinished processes have the
\* same container as their input, every _next call spawned at most one
\* process, and a Resource has received no more run invocations than the
\* _next calls that resolved to it plus its own root activation.
C36_TokensAreNotDuplicated ==
    /\ \A p, q \in Unfinished :
           (procs[p].input # 0 /\ procs[p].input = procs[q].input) => p = q
    /\ \A j, k \in 1..Len(nextCalls) :
           (nextCalls[j].outcome = "spawned" /\ nextCalls[j].pid = nextCalls[k].pid) => j = k
    /\ \A r \in Ress :
           /\ Cardinality(RootActivations(r)) <= 1
           /\ Cardinality(Received(r)) <=
                  Cardinality(SpawnsTo(r)) + Cardinality(RootActivations(r))

\* One container has been the input of two processes in turn, the first
\* finished, and a Resource has received several tokens
C36_Witness ==
    /\ \E p, q \in Pids : /\ p # q
                          /\ procs[p].input # 0
                          /\ procs[p].input = procs[q].input
                          /\ procs[p].pc = "done"
                          /\ q \in Unfinished
    /\ Cardinality(SpawnsTo("R1")) >= 2

\* start() has returned or raised, and not because run_time was reached
RunEnded == status \in {"drained", "crashed"}

\* The deliveries of container tok to Resource r, and the rows r wrote for it
Deliveries(r, tok) == {pid \in Received(r) : procs[pid].input = tok}

EnterRows(r, tok) ==
    {i \in 1..Len(log) : /\ log[i].component_id = r
                         /\ log[i].action = "ENTER"
                         /\ log[i].PDV = tok}

\* C37: no token starves at a Resource.  When a run that run_time does not
\* cut off is over, every token delivered to a Resource has written its
\* ENTER row and, after it, its exit row.
C37_NoTokenStarves ==
    (run_time = <<>> /\ RunEnded) =>
        \A r \in Ress, tok \in 1..Len(containers) :
            /\ Cardinality(EnterRows(r, tok)) = Cardinality(Deliveries(r, tok))
            /\ Cardinality(ExitRows(r, tok)) = Cardinality(Deliveries(r, tok))
            /\ \A i \in EnterRows(r, tok) : \E j \in ExitRows(r, tok) : i < j

\* The nodes one edge away from a node of S, and those within n more edges
Successors(g, S) ==
    {g.edges[k].target : k \in {i \in 1..Len(g.edges) : g.edges[i].source \in S}}

RECURSIVE ReachFrom(_, _, _)
ReachFrom(g, S, n) ==
    IF n = 0 THEN S ELSE ReachFrom(g, S \cup Successors(g, S), n - 1)

\* No node of the graph lies on a cycle
Acyclic(g) ==
    \A i \in 1..Len(g.nodes) :
        g.nodes[i] \notin ReachFrom(g, Successors(g, {g.nodes[i]}), Len(g.nodes))

\* start() has returned from env.run or been left by an exception
StartOver == status \notin {"built", "running"}

\* C38: when every Generator has a bounded gen_count, the workflow graph is
\* acyclic and run_time is unset, start() ends with the event queue empty,
\* each token having visited each component at most once.
C38_BoundedAcyclicRunEmptiesTheQueue ==
    ((\A g \in Gens : gen_count[g] # <<>>) /\ Acyclic(workflow) /\ run_time = <<>>) =>
        /\ StartOver => (status = "drained" /\ queue = {})
        /\ \A c \in Comps, tok \in 1..Len(containers) :
               Cardinality(Deliveries(c, tok)) <= 1

\* C39: with run_time = T no row of the log carries a time greater than or
\* equal to T; what is due at T is not executed.
C39_RowsBeforeRunTime ==
    run_time # <<>> => \A i \in 1..Len(log) : log[i].time < run_time[1]

\* The run was stopped at T with rows written up to T - 1 and with events
\* due at T, a generator's next tick among them, left in the queue
C39_Witness ==
    /\ run_time # <<>>
    /\ status = "stopped"
    /\ now = run_time[1]
    /\ \E i \in 1..Len(log) : log[i].time = run_time[1] - 1
    /\ \E e \in queue : /\ e.time = run_time[1]
                        /\ e.kind = "Timeout"
                        /\ procs[e.pid].pc = "gen_timeout"

(***************************************************************************)
(* A second SimulationBuilder in the same process.  env is an attribute of *)
(* the class, made once as the class is defined: the second builder's      *)
(* components, built on the same configuration, are created on the         *)
(* environment the first run left, with its clock and its event counter.   *)
(***************************************************************************)
SecondBuilder ==
    /\ status = "drained"
    /\ runs.run = 1
    /\ runs' = [run |-> 2, csv |-> CsvRows]
    /\ Assign([Built EXCEPT !.now = now, !.eid = eid])
    /\ UNCHANGED <<wg, kv, gt, csv, ce, sb>>

NextBuilders ==
    \/ Next
    \/ SecondBuilder

SpecBuilders == InitChain /\ [][NextBuilders]_vars

\* C40: each SimulationBuilder runs on its own clock starting at 0.  The
\* rows of a second builder's run, started after a first one has run, carry
\* the times they carry when the configuration is run alone.
C40_SecondRunStartsAtZero ==
    runs.run = 2 =>
        \A i \in 1..Len(log) :
            /\ i <= Len(runs.csv)
            /\ log[i].time = runs.csv[i].row.time

====
